---- MODULE Spec2Model ----
(***************************************************************************)
(* Transcription orchestration pipeline of the Voxcribe whisper backend.   *)
(*                                                                         *)
(* server.js holds two versions of the /api/transcribe handler (lines      *)
(* 105-174 and lines 307-546); both are modelled, selected by `variant'.   *)
(* The installers are modelled as a second state machine (SpecInstall).    *)
(* Strings are sequences of one-character strings.                         *)
(***************************************************************************)
EXTENDS Integers, Sequences, FiniteSets, TLC

\* --------------------------------------------------------------- strings
Letters == {"h", "w"}
WS == {" ", "\t"}
Chars == Letters \cup WS

RECURSIVE TrimLeft(_)
TrimLeft(s) ==
  IF s = <<>> THEN <<>>
  ELSE IF Head(s) \in WS THEN TrimLeft(Tail(s)) ELSE s

RECURSIVE TrimRight(_)
TrimRight(s) ==
  IF s = <<>> THEN <<>>
  ELSE IF s[Len(s)] \in WS THEN TrimRight(SubSeq(s, 1, Len(s) - 1)) ELSE s

\* String.prototype.trim
Trim(s) == TrimRight(TrimLeft(s))

\* s.replace(/\s+/g, ' ')
RECURSIVE CollapseWS(_)
CollapseWS(s) ==
  IF s = <<>> THEN <<>>
  ELSE IF Head(s) \in WS THEN <<" ">> \o CollapseWS(TrimLeft(Tail(s)))
  ELSE <<Head(s)>> \o CollapseWS(Tail(s))

\* Array.prototype.join(' ')
RECURSIVE JoinSp(_)
JoinSp(ss) ==
  IF ss = <<>> THEN <<>>
  ELSE IF Len(ss) = 1 THEN ss[1]
  ELSE ss[1] \o <<" ">> \o JoinSp(Tail(ss))

\* ------------------------------------------- structured output (JSON.parse)
\* A segment of the engine's JSON: text may be missing; `to' is offsets.to (ms).
Seg(hasText, text, to) == [hasText |-> hasText, text |-> text, to |-> to]

JInvalid == [kind |-> "invalid", segs |-> <<>>, textKind |-> "absent", text |-> <<>>, duration |-> 0]
JNull == [kind |-> "null", segs |-> <<>>, textKind |-> "absent", text |-> <<>>, duration |-> 0]
JScalar == [kind |-> "scalar", segs |-> <<>>, textKind |-> "absent", text |-> <<>>, duration |-> 0]
JSegs(segs, d) == [kind |-> "segs", segs |-> segs, textKind |-> "absent", text |-> <<>>, duration |-> d]
JText(tk, t) == [kind |-> "text", segs |-> <<>>, textKind |-> tk, text |-> t, duration |-> 0]

SegTextTrim(s) == Trim(s.text)
SegTextOrEmpty(s) == IF s.hasText THEN s.text ELSE <<>>

\* server.js:526-532, second handler: threw = a TypeError reaches the outer catch
Threw == [threw |-> TRUE, isString |-> FALSE, text |-> <<>>]
Str(t) == [threw |-> FALSE, isString |-> TRUE, text |-> t]
\* a value that is not a string (undefined, null, a number, an object)
NotStr == [threw |-> FALSE, isString |-> FALSE, text |-> <<>>]

\* server.js:529  transcription.transcription.map(segment => segment.text.trim())
\*                 .join(' ').replace(/\s+/g, ' ').trim()
SegmentsTextV2(segs) == Trim(CollapseWS(JoinSp([i \in 1..Len(segs) |-> SegTextTrim(segs[i])])))

\* PlainTextV2 without the `|| \'\'' default: a missing text is passed on as it is
PlainTextV2_NoDefault(j) ==
  IF j.textKind = "nonstr" THEN Threw
  ELSE IF j.textKind = "absent" THEN NotStr
  ELSE Str(Trim(CollapseWS(j.text)))

\* server.js:531  (transcription.text || '').replace(/\s+/g, ' ').trim()
PlainTextV2(j) ==
  IF j.textKind = "nonstr" THEN Threw
  ELSE IF j.textKind = "absent" THEN Str(<<>>)
  ELSE Str(Trim(CollapseWS(j.text)))

ExtractTextV2(j) ==
  CASE j.kind = "null" -> Threw
    [] j.kind = "segs" ->
         IF \E i \in 1..Len(j.segs) : ~j.segs[i].hasText
         THEN Threw
         ELSE Str(SegmentsTextV2(j.segs))
    [] OTHER -> PlainTextV2(j)

\* server.js:164-168, first handler
SegmentsTextV1(segs) == Trim(JoinSp([i \in 1..Len(segs) |-> SegTextOrEmpty(segs[i])]))

ExtractTextV1(j) ==
  IF j.kind = "segs" THEN Str(SegmentsTextV1(j.segs)) ELSE Threw

ExtractText(v, j) == IF v = 1 THEN ExtractTextV1(j) ELSE ExtractTextV2(j)

\* server.js:536 / 166
ResponseSegments(j) == IF j.kind = "segs" THEN j.segs ELSE <<>>

\* server.js:537 (transcription.duration || 0) / 167 (last?.offsets?.to / 1000 || 0),
\* in milliseconds so that the division by 1000 loses nothing
ResponseDuration(v, j) ==
  IF v = 1
  THEN (IF Len(j.segs) = 0 THEN 0 ELSE j.segs[Len(j.segs)].to)
  ELSE j.duration * 1000


\* ------------------------------------------------------- external processes
\* Result of child_process.exec: error (non-zero exit or spawn failure) and the
\* kind of the combined stdout+stderr text.
ExecResults == [error : BOOLEAN, out : {"", "winerr", "real"}]

\* server.js:278  WINDOWS_EXEC_ERROR.test(out)
looksLikeWindowsError(r) == r.out = "winerr"

\* execAsyncAcceptOutput that rejects on every error, as execAsync does
execAsyncAcceptOutput_RejectOnError(r) == ~r.error

\* server.js:282-298  TRUE when the promise resolves, FALSE when it rejects
execAsyncAcceptOutput(r) ==
  LET hasRealOutput == r.out # "" /\ ~looksLikeWindowsError(r)
  IN  IF hasRealOutput THEN TRUE ELSE ~r.error

\* server.js:262-275 and 85-97: rejects exactly on error
execAsync(r) == ~r.error

\* The shell's answer when the command is not on the PATH: an error exit and a
\* "not recognized" / "not found" message on stderr.
ShellNotFound == [error |-> TRUE, out |-> "real"]

\* no process has been run
NoExec == [error |-> FALSE, out |-> "none"]

\* ------------------------------------------------------------ configuration
Platforms == {"win32", "linux"}

\* server.js:302-304; the table itself (constants/languages) is external input
SUPPORTED_LANGUAGE_CODES == {"en"}

\* req.body.language: "" stands for a missing field
Languages == {"", "en", "xx"}

\* utils/whisperInstaller.js:76-87
getWhisperBinaryPathCandidates(p) ==
  IF p = "win32"
  THEN <<"whisper-core.exe", "whisper-cli.exe", "main.exe", "whisper.exe">>
  ELSE <<"bin/whisper">>

\* every local engine file name the install check looks at (whisperInstaller.js:42-64)
WhisperLocalNames(p) ==
  IF p = "win32"
  THEN {"whisper-core.exe", "whisper-cli.exe", "main.exe", "whisper.exe"}
  ELSE {"bin/whisper", "bin/main"}

JobFiles == {"input", "wav", "json"}

\* Structured outputs the engine is made to write in the request model.
EngineJson ==
  { JInvalid, JNull, JScalar,
    JSegs(<<>>, 0),
    JSegs(<<Seg(TRUE, <<" ", "h">>, 1000), Seg(TRUE, <<" ", "w">>, 2000)>>, 2),
    JSegs(<<Seg(TRUE, <<"h">>, 1000), Seg(FALSE, <<>>, 2000)>>, 0),
    JSegs(<<Seg(TRUE, <<"h">>, 500)>>, 0),
    JText("str", <<"h", "\t", "w">>),
    JText("absent", <<>>),
    JText("nonstr", <<>>) }

VARIABLES
  variant,        \* which /api/transcribe handler of server.js runs (1: 105-174, 2: 307-546)
  platform,       \* os.platform()
  ffmpegLocal,    \* bin/ffmpeg(.exe) exists
  ffmpegGlobal,   \* ffmpeg is on the PATH
  whisperFiles,   \* engine executables present in bin/
  whisperGlobal,  \* whisper is on the PATH
  model,          \* model file: "absent", "partial" or "complete"
  chmodded,       \* tools whose permission bits the handler has set
  hasFile,        \* req.file
  language,       \* req.body.language
  files,          \* job files on disk
  jsonContent,    \* content of <jobId>.json (what JSON.parse yields)
  pc,             \* position of the handler
  ffmpegPath,     \* local of the handler
  whisperPath,    \* local of the handler ("null" when unset)
  idx,            \* position in the candidate loop
  whisperOutput,  \* captured engine output
  responses,      \* HTTP responses sent for the request
  written,        \* job files ever written
  attempted,      \* job files whose deletion was attempted
  unlinkFailed,   \* job files whose deletion threw
  started,        \* external work started for the request
  tested,         \* candidates self-tested by discovery, in order
  engineLang,     \* -l argument of the engine invocation ("" before it)
  converted,      \* outcome of the conversion: "no" (not run), "ok" or "failed"
  cleanupBlock,   \* the cleanup block the handler ran: "none", "convert",
                  \* "discovery", "nooutput" or "final"
  convertError,   \* exec result of a converter run that was rejected (NoExec if none)
  lastTestOut,    \* `out' of the self-test callback of the candidate loop
                  \* ("none" outside the loop)
  engineResult,   \* (error, out) of the engine's exec callback (NoExec outside it)
  installThrew,   \* the on-demand provisioning step that threw: "none", "ffmpeg",
                  \* "whisper" or "model"
  itool,          \* installer under way: "ffmpeg", "whisper" or "none"
  ipc,            \* position of the installer
  mirror,         \* position in the list of download sources
  archive,        \* the downloaded archive exists
  extractDir,     \* the extraction / build directory exists
  iresult,        \* "running", "ok" (returned) or "threw"
  wasResolvable,  \* the tool was resolvable when the installer was called
  wimpl,          \* file whose downloadWhisperWindows runs: "whisperInstaller" or
                  \* "ffmpegInstaller"
  contacted,      \* download sources contacted by the installer, in order, each
                  \* with its outcome
  unblock,        \* the Unblock-File process: "idle", "running" or "done"
  tree,           \* the extracted archive: directory entries in readdir order
  binarySource,   \* what findFileRecursively returned ("pending" before the call)
  clock,          \* Date.now()
  jstage,         \* position of each concurrent job
  jupload,        \* stored upload path of each job (multer filename)
  jid,            \* job id of each job (0 before it is taken)
  disk,           \* files of the shared directories, each with the job that wrote it last
  clobbered,      \* jobs a file of which was overwritten or deleted by another job
  engineModel,    \* state of the model file when each job ran the engine ("none" before)
  attemptIdx,     \* versioned installer: index of the release being tried
  installed,      \* versioned installer: the `installed' flag
  dlImpl,         \* downloadFile: which of the implementations runs
  server,         \* downloadFile: the answer of the server to each URL
  dlUrl,          \* downloadFile: the URL of the current call
  dlState,        \* downloadFile: position of the call / state of the promise
  dlFile,         \* downloadFile: the destination file
  dlStatus        \* downloadFile: status code of the last response (0: none)

hvars == <<variant, platform, ffmpegLocal, ffmpegGlobal, whisperFiles, whisperGlobal,
           model, chmodded, hasFile, language, files, jsonContent, pc, ffmpegPath,
           whisperPath, idx, whisperOutput, responses, written, attempted,
           unlinkFailed, started, tested, engineLang, converted, cleanupBlock,
           convertError, lastTestOut, engineResult, installThrew>>

ivars == <<itool, ipc, mirror, archive, extractDir, iresult, wasResolvable, wimpl,
           contacted, unblock>>

fvars == <<tree, binarySource>>

jvars == <<clock, jstage, jupload, jid, disk, clobbered, engineModel>>

vvars == <<attemptIdx, installed>>

dvars == <<dlImpl, server, dlUrl, dlState, dlFile, dlStatus>>

extras == <<fvars, jvars, vvars, dvars>>

vars == <<hvars, ivars, extras>>


\* ------------------------------------------------------------ tool location
\* utils/ffmpegInstaller.js:29-54: "local" is the path under bin/, "ffmpeg" the
\* command on the PATH
getFFmpegPath(local, global) ==
  IF local THEN "local" ELSE IF global THEN "ffmpeg" ELSE "local"

\* utils/ffmpegInstaller.js:71-81
isFFmpegInstalledSync(local, global) ==
  getFFmpegPath(local, global) = "ffmpeg" \/ local

\* getWhisperBinaryPath with the PATH lookup ahead of the files in bin/
getWhisperBinaryPath_GlobalFirst(p, present, global) ==
  LET standard == IF p = "win32" THEN "whisper-core.exe" ELSE "bin/whisper"
      order == IF p = "win32"
               THEN <<"whisper-core.exe", "whisper-cli.exe", "main.exe", "whisper.exe">>
               ELSE <<"bin/whisper", "bin/main">>
      hits == {i \in 1..Len(order) : order[i] \in present}
  IN IF global THEN "whisper"
     ELSE IF hits # {} THEN order[CHOOSE i \in hits : \A k \in hits : i <= k]
     ELSE standard

\* utils/whisperInstaller.js:42-73
getWhisperBinaryPath(p, present, global) ==
  LET standard == IF p = "win32" THEN "whisper-core.exe" ELSE "bin/whisper"
      order == IF p = "win32"
               THEN <<"whisper-core.exe", "whisper-cli.exe", "main.exe", "whisper.exe">>
               ELSE <<"bin/whisper", "bin/main">>
      hits == {i \in 1..Len(order) : order[i] \in present}
  IN IF hits # {} THEN order[CHOOSE i \in hits : \A k \in hits : i <= k]
     ELSE IF global THEN "whisper" ELSE standard

\* utils/whisperInstaller.js:111-120
isWhisperInstalledSync(p, present, global) ==
  LET binaryPath == getWhisperBinaryPath(p, present, global)
  IN  binaryPath = "whisper" \/ binaryPath \in present

\* utils/whisperInstaller.js:122-130: F_OK only, so a partial file counts
isModelAvailableSync(m) == m # "absent"

\* utils/ffmpegInstaller.js:230-244: what `await installFFmpeg()' can do
installFFmpegOutcomes(p, global) ==
  IF global THEN {"noop"}
  ELSE IF p = "win32" THEN {"installed", "threw"} ELSE {"threw"}

\* utils/whisperInstaller.js:346-360: what `await installWhisper()' can do
installWhisperOutcomes(p, present, global) ==
  IF isWhisperInstalledSync(p, present, global) THEN {"noop"}
  ELSE {"installed", "threw"}

\* file the engine installers leave in bin/ (whisperInstaller.js:233, 328)
InstalledWhisperName(p) == IF p = "win32" THEN "whisper-core.exe" ELSE "bin/whisper"

\* ---------------------------------------------------------------- responses
Resp(status, error, x, segs, dur) ==
  [status |-> status, error |-> error, isString |-> x.isString, text |-> x.text,
   segments |-> segs, duration |-> dur]

ErrorResp(status, msg) == Resp(status, msg, NotStr, <<>>, 0)

\* the first handler's answer to a failure (server.js:170-173) in the place of
\* the empty transcript
emptyTranscription_Error == Resp(500, "Transcription failed", NotStr, <<>>, 0)

\* server.js:424-430, 516
emptyTranscription == Resp(200, "", Str(<<>>), <<>>, 0)

\* server.js:534-538 / 164-168
Payload(v, j) ==
  Resp(200, "", ExtractText(v, j), ResponseSegments(j), ResponseDuration(v, j))

\* fs.unlink of the files of `order', one after the other inside one try block:
\* the first deletion that throws (file missing, or in `fail') ends the block.
UnlinkSeq(fs, order, fail) ==
  LET bad == {i \in 1..Len(order) : order[i] \notin fs \/ order[i] \in fail}
      stop == IF bad = {} THEN Len(order) + 1
              ELSE CHOOSE i \in bad : \A k \in bad : i <= k
  IN  [files |-> fs \ {order[i] : i \in 1..(stop - 1)},
       attempted |-> {order[i] : i \in {k \in 1..Len(order) : k <= stop}},
       failed |-> IF bad = {} THEN {} ELSE {order[stop]}]


\* ------------------------------------------------------------ request model
cfg == <<variant, platform>>
ffmpegFs == <<ffmpegLocal, ffmpegGlobal>>
whisperFs == <<whisperFiles, whisperGlobal>>
req == <<hasFile, language>>
jobFs == <<files, jsonContent, written>>
unlinkLog == <<attempted, unlinkFailed>>
locals == <<ffmpegPath, whisperPath, idx, whisperOutput>>
engineLog == <<tested, engineLang>>
hist == <<converted, cleanupBlock>>
probeLog == <<convertError, lastTestOut, engineResult, installThrew>>

\* no archive is being searched in the request and installer models
FindIdle ==
  /\ tree = <<>>
  /\ binarySource = "pending"

\* no second job is modelled in the request and installer models
DownloadIdle ==
  /\ dlImpl = "whisperInstaller"
  /\ server = <<>>
  /\ dlUrl = "none"
  /\ dlState = "off"
  /\ dlFile = "absent"
  /\ dlStatus = 0

VersionsIdle ==
  /\ attemptIdx = 1
  /\ installed = FALSE

JobsIdle ==
  /\ clock = 0
  /\ jstage = <<>>
  /\ jupload = <<>>
  /\ jid = <<>>
  /\ disk = {}
  /\ clobbered = {}
  /\ engineModel = <<>>

\* no installer is under way in the request model
InstallerIdle ==
  /\ itool = "none"
  /\ ipc = "off"
  /\ mirror = 1
  /\ archive = FALSE
  /\ extractDir = FALSE
  /\ iresult = "ok"
  /\ wasResolvable = FALSE
  /\ wimpl = "whisperInstaller"
  /\ contacted = <<>>
  /\ unblock = "idle"

Init ==
  /\ InstallerIdle
  /\ variant \in {1, 2}
  /\ platform \in Platforms
  /\ ffmpegLocal \in BOOLEAN
  /\ ffmpegGlobal \in BOOLEAN
  /\ whisperFiles \in SUBSET WhisperLocalNames(platform)
  /\ whisperGlobal \in (IF variant = 2 THEN BOOLEAN ELSE {FALSE})
  /\ model \in (IF variant = 2 THEN {"absent", "complete"} ELSE {"complete"})
  /\ chmodded = {}
  /\ hasFile = FALSE
  /\ language = ""
  /\ files = {}
  /\ jsonContent = JInvalid
  /\ pc = "idle"
  /\ ffmpegPath = "local"
  /\ whisperPath = "null"
  /\ idx = 1
  /\ whisperOutput = ""
  /\ responses = <<>>
  /\ written = {}
  /\ attempted = {}
  /\ unlinkFailed = {}
  /\ started = {}
  /\ tested = <<>>
  /\ engineLang = ""
  /\ converted = "no"
  /\ cleanupBlock = "none"
  /\ convertError = NoExec
  /\ lastTestOut = "none"
  /\ engineResult = NoExec
  /\ installThrew = "none"
  /\ FindIdle
  /\ JobsIdle
  /\ VersionsIdle
  /\ DownloadIdle

Finish(r) == responses' = Append(responses, r) /\ pc' = "done"

DoUnlink(block, order, fail) ==
  LET r == UnlinkSeq(files, order, fail)
  IN  /\ cleanupBlock' = block
      /\ files' = r.files
      /\ attempted' = attempted \cup r.attempted
      /\ unlinkFailed' = unlinkFailed \cup r.failed

\* server.js:240-248 (50-56): multer stores the upload before the handler runs
Receive ==
  /\ pc = "idle"
  /\ \E f \in BOOLEAN, l \in Languages :
       /\ hasFile' = f
       /\ language' = l
       /\ files' = IF f THEN {"input"} ELSE {}
       /\ written' = IF f THEN {"input"} ELSE {}
  /\ pc' = IF variant = 1 THEN "v1validate" ELSE "validate"
  /\ UNCHANGED <<extras, ivars, probeLog, hist, cfg, ffmpegFs, whisperFs, model, chmodded, jsonContent, locals,
                 responses, unlinkLog, started, engineLog>>

\* server.js:309-311
NoFile ==
  /\ pc = "validate"
  /\ ~hasFile
  /\ Finish(ErrorResp(400, "No file uploaded"))
  /\ UNCHANGED <<extras, ivars, probeLog, hist, cfg, ffmpegFs, whisperFs, model, chmodded, req, jobFs, locals,
                 unlinkLog, started, engineLog>>

\* server.js:313-316
NoLanguage ==
  /\ pc = "validate"
  /\ hasFile
  /\ language = ""
  /\ Finish(ErrorResp(400, "Language is required"))
  /\ UNCHANGED <<extras, ivars, probeLog, hist, cfg, ffmpegFs, whisperFs, model, chmodded, req, jobFs, locals,
                 unlinkLog, started, engineLog>>

\* server.js:318-321
ResolvePaths ==
  /\ pc = "validate"
  /\ hasFile
  /\ language # ""
  /\ ffmpegPath' = getFFmpegPath(ffmpegLocal, ffmpegGlobal)
  /\ pc' = "checkFFmpeg"
  /\ UNCHANGED <<extras, ivars, probeLog, hist, cfg, ffmpegFs, whisperFs, model, chmodded, req, jobFs, whisperPath,
                 idx, whisperOutput, responses, unlinkLog, started, engineLog>>

\* server.js:324 (installed)
FFmpegPresent ==
  /\ pc = "checkFFmpeg"
  /\ isFFmpegInstalledSync(ffmpegLocal, ffmpegGlobal)
  /\ pc' = "checkWhisper"
  /\ UNCHANGED <<extras, ivars, probeLog, hist, cfg, ffmpegFs, whisperFs, model, chmodded, req, jobFs, locals,
                 responses, unlinkLog, started, engineLog>>

\* server.js:324-330: installFFmpeg returns
FFmpegInstall ==
  /\ pc = "checkFFmpeg"
  /\ ~isFFmpegInstalledSync(ffmpegLocal, ffmpegGlobal)
  /\ \E o \in installFFmpegOutcomes(platform, ffmpegGlobal) \ {"threw"} :
       ffmpegLocal' = (ffmpegLocal \/ o = "installed")
  /\ started' = started \cup {"installFFmpeg"}
  /\ pc' = "checkWhisper"
  /\ UNCHANGED <<extras, ivars, probeLog, hist, cfg, ffmpegGlobal, whisperFs, model, chmodded, req, jobFs, locals,
                 responses, unlinkLog, engineLog>>

\* FFmpegInstallFails with the catch block swallowing the error: the handler
\* goes on to the engine check
FFmpegInstallFails_Swallowed ==
  /\ pc = "checkFFmpeg"
  /\ ~isFFmpegInstalledSync(ffmpegLocal, ffmpegGlobal)
  /\ "threw" \in installFFmpegOutcomes(platform, ffmpegGlobal)
  /\ started' = started \cup {"installFFmpeg"}
  /\ pc' = "checkWhisper"
  /\ installThrew' = "ffmpeg"
  /\ UNCHANGED <<extras, ivars, convertError, lastTestOut, engineResult, hist, cfg, ffmpegFs, whisperFs, model, chmodded, req, jobFs, locals,
                 responses, unlinkLog, engineLog>>

\* server.js:331-338: installFFmpeg throws
FFmpegInstallFails ==
  /\ pc = "checkFFmpeg"
  /\ ~isFFmpegInstalledSync(ffmpegLocal, ffmpegGlobal)
  /\ "threw" \in installFFmpegOutcomes(platform, ffmpegGlobal)
  /\ started' = started \cup {"installFFmpeg"}
  /\ Finish(ErrorResp(500, "FFmpeg not found and auto-install failed"))
  /\ installThrew' = "ffmpeg"
  /\ UNCHANGED <<extras, ivars, convertError, lastTestOut, engineResult, hist, cfg, ffmpegFs, whisperFs, model, chmodded, req, jobFs, locals,
                 unlinkLog, engineLog>>

\* server.js:341 (installed)
WhisperPresent ==
  /\ pc = "checkWhisper"
  /\ isWhisperInstalledSync(platform, whisperFiles, whisperGlobal)
  /\ pc' = "checkModel"
  /\ UNCHANGED <<extras, ivars, probeLog, hist, cfg, ffmpegFs, whisperFs, model, chmodded, req, jobFs, locals,
                 responses, unlinkLog, started, engineLog>>

\* server.js:341-348: installWhisper returns
WhisperInstall ==
  /\ pc = "checkWhisper"
  /\ ~isWhisperInstalledSync(platform, whisperFiles, whisperGlobal)
  /\ \E o \in installWhisperOutcomes(platform, whisperFiles, whisperGlobal) \ {"threw"} :
       whisperFiles' = IF o = "installed"
                       THEN whisperFiles \cup {InstalledWhisperName(platform)}
                       ELSE whisperFiles
  /\ started' = started \cup {"installWhisper"}
  /\ pc' = "checkModel"
  /\ UNCHANGED <<extras, ivars, probeLog, hist, cfg, ffmpegFs, whisperGlobal, model, chmodded, req, jobFs, locals,
                 responses, unlinkLog, engineLog>>

\* server.js:349-355: installWhisper throws
WhisperInstallFails ==
  /\ pc = "checkWhisper"
  /\ ~isWhisperInstalledSync(platform, whisperFiles, whisperGlobal)
  /\ "threw" \in installWhisperOutcomes(platform, whisperFiles, whisperGlobal)
  /\ started' = started \cup {"installWhisper"}
  /\ Finish(ErrorResp(500, "Whisper binary not found and auto-install failed"))
  /\ installThrew' = "whisper"
  /\ UNCHANGED <<extras, ivars, convertError, lastTestOut, engineResult, hist, cfg, ffmpegFs, whisperFs, model, chmodded, req, jobFs, locals,
                 unlinkLog, engineLog>>

\* server.js:358 (available)
ModelPresent ==
  /\ pc = "checkModel"
  /\ isModelAvailableSync(model)
  /\ pc' = "convert"
  /\ UNCHANGED <<extras, ivars, probeLog, hist, cfg, ffmpegFs, whisperFs, model, chmodded, req, jobFs, locals,
                 responses, unlinkLog, started, engineLog>>

\* server.js:358-381: the write stream creates the model file, the download starts
ModelDownloadStart ==
  /\ pc = "checkModel"
  /\ ~isModelAvailableSync(model)
  /\ model' = "partial"
  /\ started' = started \cup {"modelDownload"}
  /\ pc' = "awaitModel"
  /\ UNCHANGED <<extras, ivars, probeLog, hist, cfg, ffmpegFs, whisperFs, chmodded, req, jobFs, locals,
                 responses, unlinkLog, engineLog>>

\* server.js:383-388: writer 'finish'
ModelDownloadFinish ==
  /\ pc = "awaitModel"
  /\ model' = "complete"
  /\ pc' = "convert"
  /\ UNCHANGED <<extras, ivars, probeLog, hist, cfg, ffmpegFs, whisperFs, chmodded, req, jobFs, locals,
                 responses, unlinkLog, started, engineLog>>

\* server.js:389-396: the request or the writer failed; the file is not removed
ModelDownloadFails ==
  /\ pc = "awaitModel"
  /\ Finish(ErrorResp(500, "Whisper model not found and download failed"))
  /\ installThrew' = "model"
  /\ UNCHANGED <<extras, ivars, convertError, lastTestOut, engineResult, hist, cfg, ffmpegFs, whisperFs, model, chmodded, req, jobFs, locals,
                 unlinkLog, started, engineLog>>

\* the converter binary the handler's ffmpegPath names is there to run
FFmpegRunnable ==
  IF ffmpegPath = "ffmpeg" THEN ffmpegGlobal ELSE ffmpegLocal

\* what running the converter can answer
ConvertResults == IF FFmpegRunnable THEN ExecResults ELSE {ShellNotFound}

\* server.js:399-413: conversion succeeds
ConvertOk ==
  /\ pc = "convert"
  /\ \E r \in ConvertResults : execAsync(r)
  /\ converted' = "ok"
  /\ started' = started \cup {"convert"}
  /\ files' = files \cup {"wav"}
  /\ written' = written \cup {"wav"}
  /\ idx' = 1
  /\ pc' = "discover"
  /\ UNCHANGED <<extras, ivars, probeLog, cleanupBlock, cfg, ffmpegFs, whisperFs, model, chmodded, req, jsonContent,
                 ffmpegPath, whisperPath, whisperOutput, responses, unlinkLog, engineLog>>

\* server.js:414-431: conversion fails (non-zero exit, or ffmpeg cannot be run);
\* a failing ffmpeg may leave a partial output file
ConvertFails ==
  /\ pc = "convert"
  /\ converted' = "failed"
  /\ cleanupBlock' = "convert"
  /\ started' = started \cup {"convert"}
  /\ \E r \in ConvertResults : ~execAsync(r) /\ convertError' = r
  /\ \E leaveWav \in {FALSE, FFmpegRunnable}, fail \in SUBSET {"input"} :
       LET fs == IF leaveWav THEN files \cup {"wav"} ELSE files
           r == UnlinkSeq(fs, <<"input">>, fail)
       IN  /\ files' = r.files
           /\ written' = IF leaveWav THEN written \cup {"wav"} ELSE written
           /\ attempted' = attempted \cup r.attempted
           /\ unlinkFailed' = unlinkFailed \cup r.failed
  /\ Finish(emptyTranscription)
  /\ UNCHANGED <<extras, ivars, installThrew, lastTestOut, engineResult, cfg, ffmpegFs, whisperFs, model, chmodded, req,
                 jsonContent, locals, engineLog>>


\* ------------------------------------------------------------ ToolDiscovery
\* server.js:438  fsSync.existsSync(candidate)
existsSync(c, present) == c \in present

\* AfterAccept without the break: the loop goes on to the next candidate
AfterAccept_NoBreak(i, n) == i + 1

\* server.js:441  break: the loop position after an acceptance
AfterAccept(i, n) == n + 1

\* what running `c --help' can answer
SelfTestResults(c, present) ==
  IF c \in present THEN ExecResults ELSE {ShellNotFound}

\* server.js:436-438: candidate absent from disk, continue
DiscoverSkip ==
  /\ pc = "discover"
  /\ idx <= Len(getWhisperBinaryPathCandidates(platform))
  /\ ~existsSync(getWhisperBinaryPathCandidates(platform)[idx], whisperFiles)
  /\ idx' = idx + 1
  /\ UNCHANGED <<extras, ivars, probeLog, hist, cfg, ffmpegFs, whisperFs, model, chmodded, req, jobFs, ffmpegPath,
                 whisperPath, whisperOutput, responses, unlinkLog, started, pc,
                 engineLog>>

\* server.js:436-445: self-test of a present candidate, accepted or rejected
DiscoverTest ==
  /\ pc = "discover"
  /\ idx <= Len(getWhisperBinaryPathCandidates(platform))
  /\ LET cands == getWhisperBinaryPathCandidates(platform)
         c == cands[idx]
     IN  /\ existsSync(c, whisperFiles)
         /\ tested' = Append(tested, c)
         /\ \E r \in SelfTestResults(c, whisperFiles) :
              /\ lastTestOut' = r.out
              /\ IF execAsyncAcceptOutput(r)
                 THEN whisperPath' = c /\ idx' = AfterAccept(idx, Len(cands))
                 ELSE whisperPath' = whisperPath /\ idx' = idx + 1
  /\ started' = started \cup {"selftest"}
  /\ UNCHANGED <<extras, ivars, installThrew, convertError, engineResult, hist, cfg, ffmpegFs, whisperFs, model, chmodded, req, jobFs, ffmpegPath,
                 whisperOutput, responses, unlinkLog, pc, engineLang>>

\* DiscoverFound without the test of whisperPath: the handler goes on to the
\* engine whether or not a candidate was accepted
DiscoverFound_Unconditional ==
  /\ pc = "discover"
  /\ idx > Len(getWhisperBinaryPathCandidates(platform))
  /\ pc' = "execute"
  /\ lastTestOut' = "none"
  /\ UNCHANGED <<extras, ivars, installThrew, convertError, engineResult, hist, cfg, ffmpegFs, whisperFs, model, chmodded, req, jobFs, locals,
                 responses, unlinkLog, started, engineLog>>

\* server.js:446 (a candidate was accepted)
DiscoverFound ==
  /\ pc = "discover"
  /\ idx > Len(getWhisperBinaryPathCandidates(platform))
  /\ whisperPath # "null"
  /\ pc' = "execute"
  /\ lastTestOut' = "none"
  /\ UNCHANGED <<extras, ivars, installThrew, convertError, engineResult, hist, cfg, ffmpegFs, whisperFs, model, chmodded, req, jobFs, locals,
                 responses, unlinkLog, started, engineLog>>

\* what running `whisper --help' through the shell can answer
GlobalProbeResults == IF whisperGlobal THEN ExecResults ELSE {ShellNotFound}

\* server.js:446-450: the global command is accepted
GlobalProbeAccepted ==
  /\ pc = "discover"
  /\ idx > Len(getWhisperBinaryPathCandidates(platform))
  /\ whisperPath = "null"
  /\ \E r \in GlobalProbeResults : execAsyncAcceptOutput(r)
  /\ whisperPath' = "whisper"
  /\ started' = started \cup {"selftest"}
  /\ pc' = "execute"
  /\ lastTestOut' = "none"
  /\ UNCHANGED <<extras, ivars, installThrew, convertError, engineResult, hist, cfg, ffmpegFs, whisperFs, model, chmodded, req, jobFs, ffmpegPath,
                 idx, whisperOutput, responses, unlinkLog, engineLog>>

\* what the discovery that failed has seen: no candidate on disk, the
\* deprecated stub (main.exe, see utils/ffmpegInstaller.js:708-709) among the
\* candidates found, or other candidates that could not be run
DiscoveryCases == {"missing", "stub", "nonfunctional"}

DiscoveryCase ==
  IF tested = <<>> THEN "missing"
  ELSE IF \E i \in 1..Len(tested) : tested[i] = "main.exe" THEN "stub"
  ELSE "nonfunctional"

\* server.js:457-459: the error text of the response, one for every case
DiscoveryFailureMessage(c) == "Whisper could not be run on this PC"

\* server.js:451-460: nothing can be run
GlobalProbeRejected ==
  /\ pc = "discover"
  /\ idx > Len(getWhisperBinaryPathCandidates(platform))
  /\ whisperPath = "null"
  /\ \E r \in GlobalProbeResults : ~execAsyncAcceptOutput(r)
  /\ started' = started \cup {"selftest"}
  /\ \E fail \in SUBSET {"input", "wav"} : DoUnlink("discovery", <<"input", "wav">>, fail)
  /\ Finish(ErrorResp(500, DiscoveryFailureMessage(DiscoveryCase)))
  /\ lastTestOut' = "none"
  /\ UNCHANGED <<extras, ivars, installThrew, convertError, engineResult, converted, cfg, ffmpegFs, whisperFs, model, chmodded, req, jsonContent, written,
                 locals, engineLog>>

\* ---------------------------------------------------------------- Execution
EngineRunnable ==
  IF whisperPath = "whisper" THEN whisperGlobal ELSE whisperPath \in whisperFiles

\* "json": real output that holds a timestamp marker and a brace-delimited block
\* "text": real output that holds timestamp-bracket lines and no such block
EngineResults ==
  IF EngineRunnable
  THEN ExecResults \cup [error : BOOLEAN, out : {"json", "text"}]
  ELSE {ShellNotFound}

\* what the engine leaves at <jobId>.json
EngineWrites ==
  {[w |-> FALSE, j |-> JInvalid]} \cup
  (IF EngineRunnable THEN {[w |-> TRUE, j |-> x] : x \in EngineJson} ELSE {})

\* server.js:463-478: the engine runs; a rejection is caught and logged
Execute ==
  /\ pc = "execute"
  /\ started' = started \cup {"engine"}
  /\ engineLang' = language
  /\ \E r \in EngineResults, o \in EngineWrites :
       /\ engineResult' = r
       /\ whisperOutput' = IF execAsyncAcceptOutput(r) THEN r.out ELSE ""
       /\ files' = IF o.w THEN files \cup {"json"} ELSE files
       /\ written' = IF o.w THEN written \cup {"json"} ELSE written
       /\ jsonContent' = o.j
  /\ pc' = "findOutput"
  /\ UNCHANGED <<extras, ivars, installThrew, convertError, lastTestOut, hist, cfg, ffmpegFs, whisperFs, model, chmodded, req, ffmpegPath,
                 whisperPath, idx, responses, unlinkLog, tested>>

\* ----------------------------------------------------------- OutputRecovery
\* server.js:480-494: fs.access of <jobId>.json, tried twice under the same name
FindOutput ==
  /\ pc = "findOutput"
  /\ "json" \in files
  /\ pc' = "read"
  /\ engineResult' = NoExec
  /\ UNCHANGED <<extras, ivars, installThrew, convertError, lastTestOut, hist, cfg, ffmpegFs, whisperFs, model, chmodded, req, jobFs, locals,
                 responses, unlinkLog, started, engineLog>>

\* server.js:496-507
NoOutputFile ==
  /\ pc = "findOutput"
  /\ "json" \notin files
  /\ \E fail \in SUBSET {"input", "wav"} : DoUnlink("nooutput", <<"input", "wav">>, fail)
  /\ Finish(ErrorResp(500, "Whisper produced no output file"))
  /\ engineResult' = NoExec
  /\ UNCHANGED <<extras, ivars, installThrew, convertError, lastTestOut, converted, cfg, ffmpegFs, whisperFs, model, chmodded, req, jsonContent, written,
                 locals, started, engineLog>>

\* ---------------------------------------------------------- ResultAssembler
\* server.js:510-513
ReadOutput ==
  /\ pc = "read"
  /\ jsonContent.kind # "invalid"
  /\ pc' = "cleanup"
  /\ UNCHANGED <<extras, ivars, probeLog, hist, cfg, ffmpegFs, whisperFs, model, chmodded, req, jobFs, locals,
                 responses, unlinkLog, started, engineLog>>

\* server.js:514-517: the file cannot be parsed
ReadFails ==
  /\ pc = "read"
  /\ jsonContent.kind = "invalid"
  /\ Finish(emptyTranscription)
  /\ UNCHANGED <<extras, ivars, probeLog, hist, cfg, ffmpegFs, whisperFs, model, chmodded, req, jobFs, locals,
                 unlinkLog, started, engineLog>>

\* server.js:519-538: cleanup in one try block, then the response
CleanupAndRespond ==
  /\ pc = "cleanup"
  /\ ~ExtractText(2, jsonContent).threw
  /\ \E fail \in SUBSET JobFiles : DoUnlink("final", <<"input", "wav", "json">>, fail)
  /\ Finish(Payload(2, jsonContent))
  /\ UNCHANGED <<extras, ivars, probeLog, converted, cfg, ffmpegFs, whisperFs, model, chmodded, req, jsonContent, written,
                 locals, started, engineLog>>

\* server.js:519-532, 539-545: text extraction throws; the catch block deletes
\* req.file.path again and answers 500
CleanupAndThrow ==
  /\ pc = "cleanup"
  /\ ExtractText(2, jsonContent).threw
  /\ \E fail \in SUBSET JobFiles, fail2 \in SUBSET {"input"} :
       LET r == UnlinkSeq(files, <<"input", "wav", "json">>, fail)
           c == UnlinkSeq(r.files, <<"input">>, fail2)
       IN  /\ cleanupBlock' = "final"
           /\ files' = c.files
           /\ attempted' = attempted \cup r.attempted \cup c.attempted
           /\ unlinkFailed' = unlinkFailed \cup r.failed \cup c.failed
  /\ Finish(ErrorResp(500, "Transcription failed"))
  /\ UNCHANGED <<extras, ivars, probeLog, converted, cfg, ffmpegFs, whisperFs, model, chmodded, req, jsonContent, written,
                 locals, started, engineLog>>


\* --------------------------------------------- first handler (server.js:105-174)
\* server.js:62-72 getExecutablePath: on linux the tool's mode is set when it exists
ChmodBy(tool, exists) == IF platform = "linux" /\ exists THEN {tool} ELSE {}

\* server.js:170-173
V1Catch == Finish(ErrorResp(500, "Transcription failed"))

\* server.js:107
V1NoFile ==
  /\ pc = "v1validate"
  /\ ~hasFile
  /\ Finish(ErrorResp(400, "No file uploaded"))
  /\ UNCHANGED <<extras, ivars, probeLog, hist, cfg, ffmpegFs, whisperFs, model, chmodded, req, jobFs, locals,
                 unlinkLog, started, engineLog>>

\* server.js:109-121 (the default 'en' of line 109 is applied where the
\* language is used, in V1Execute)
V1ResolvePaths ==
  /\ pc = "v1validate"
  /\ hasFile
  /\ ffmpegPath' = getFFmpegPath(ffmpegLocal, ffmpegGlobal)
  /\ chmodded' = chmodded \cup ChmodBy("ffmpeg", ffmpegLocal)
  /\ pc' = "v1convert"
  /\ UNCHANGED <<extras, ivars, probeLog, hist, cfg, ffmpegFs, whisperFs, model, req, jobFs, whisperPath, idx,
                 whisperOutput, responses, unlinkLog, started, engineLog>>

\* server.js:123-127
V1ConvertOk ==
  /\ pc = "v1convert"
  /\ \E r \in ConvertResults : execAsync(r)
  /\ converted' = "ok"
  /\ started' = started \cup {"convert"}
  /\ files' = files \cup {"wav"}
  /\ written' = written \cup {"wav"}
  /\ pc' = "v1find"
  /\ UNCHANGED <<extras, ivars, probeLog, cleanupBlock, cfg, ffmpegFs, whisperFs, model, chmodded, req, jsonContent, locals,
                 responses, unlinkLog, engineLog>>

\* server.js:123-127, 170-173: the rejection reaches the catch block
V1ConvertFails ==
  /\ pc = "v1convert"
  /\ converted' = "failed"
  /\ started' = started \cup {"convert"}
  /\ \E r \in ConvertResults : ~execAsync(r) /\ convertError' = r
  /\ \E leaveWav \in {FALSE, FFmpegRunnable} :
       /\ files' = IF leaveWav THEN files \cup {"wav"} ELSE files
       /\ written' = IF leaveWav THEN written \cup {"wav"} ELSE written
  /\ V1Catch
  /\ UNCHANGED <<extras, ivars, installThrew, lastTestOut, engineResult, cleanupBlock, cfg, ffmpegFs, whisperFs, model, chmodded, req, jsonContent, locals,
                 unlinkLog, engineLog>>

\* candidates present on disk, by position
V1Hits ==
  {i \in 1..Len(getWhisperBinaryPathCandidates(platform)) :
     getWhisperBinaryPathCandidates(platform)[i] \in whisperFiles}

\* server.js:130-139: the first candidate that exists is taken, untested
V1WhisperFound ==
  /\ pc = "v1find"
  /\ V1Hits # {}
  /\ whisperPath' = getWhisperBinaryPathCandidates(platform)
                      [CHOOSE i \in V1Hits : \A k \in V1Hits : i <= k]
  /\ chmodded' = chmodded \cup ChmodBy("whisper", TRUE)
  /\ pc' = "v1execute"
  /\ UNCHANGED <<extras, ivars, probeLog, hist, cfg, ffmpegFs, whisperFs, model, req, jobFs, ffmpegPath, idx,
                 whisperOutput, responses, unlinkLog, started, engineLog>>

\* server.js:141-143
V1WhisperMissing ==
  /\ pc = "v1find"
  /\ V1Hits = {}
  /\ V1Catch
  /\ UNCHANGED <<extras, ivars, probeLog, hist, cfg, ffmpegFs, whisperFs, model, chmodded, req, jobFs, locals,
                 unlinkLog, started, engineLog>>

\* server.js:145-153: the engine runs; an error exit rejects
V1Execute ==
  /\ pc = "v1execute"
  /\ started' = started \cup {"engine"}
  /\ engineLang' = (IF language = "" THEN "en" ELSE language)
  /\ \E r \in EngineResults, o \in EngineWrites :
       /\ engineResult' = r
       /\ files' = IF o.w THEN files \cup {"json"} ELSE files
       /\ written' = IF o.w THEN written \cup {"json"} ELSE written
       /\ jsonContent' = o.j
       /\ IF execAsync(r)
          THEN pc' = "v1read" /\ responses' = responses
          ELSE V1Catch
  /\ UNCHANGED <<extras, ivars, installThrew, convertError, lastTestOut, hist, cfg, ffmpegFs, whisperFs, model, chmodded, req, ffmpegPath,
                 whisperPath, idx, whisperOutput, unlinkLog, tested>>

\* server.js:155-157
V1ReadOutput ==
  /\ pc = "v1read"
  /\ "json" \in files
  /\ jsonContent.kind # "invalid"
  /\ pc' = "v1cleanup"
  /\ engineResult' = NoExec
  /\ UNCHANGED <<extras, ivars, installThrew, convertError, lastTestOut, hist, cfg, ffmpegFs, whisperFs, model, chmodded, req, jobFs, locals,
                 responses, unlinkLog, started, engineLog>>

\* server.js:155-157, 170-173: no file, or not JSON
V1ReadFails ==
  /\ pc = "v1read"
  /\ "json" \notin files \/ jsonContent.kind = "invalid"
  /\ V1Catch
  /\ engineResult' = NoExec
  /\ UNCHANGED <<extras, ivars, installThrew, convertError, lastTestOut, hist, cfg, ffmpegFs, whisperFs, model, chmodded, req, jobFs, locals,
                 unlinkLog, started, engineLog>>

\* server.js:159-168: the three deletions succeed, then the response
V1CleanupAndRespond ==
  /\ pc = "v1cleanup"
  /\ DoUnlink("final", <<"input", "wav", "json">>, {})
  /\ IF ExtractText(1, jsonContent).threw
     THEN V1Catch
     ELSE Finish(Payload(1, jsonContent))
  /\ UNCHANGED <<extras, ivars, probeLog, converted, cfg, ffmpegFs, whisperFs, model, chmodded, req, jsonContent, written,
                 locals, started, engineLog>>

\* server.js:159-162, 170-173: a deletion throws
V1CleanupFails ==
  /\ pc = "v1cleanup"
  /\ \E fail \in (SUBSET JobFiles) \ {{}} : DoUnlink("final", <<"input", "wav", "json">>, fail)
  /\ V1Catch
  /\ UNCHANGED <<extras, ivars, probeLog, converted, cfg, ffmpegFs, whisperFs, model, chmodded, req, jsonContent, written,
                 locals, started, engineLog>>

\* -------------------------------------------------------------------- system
Next ==
  \/ Receive
  \/ NoFile \/ NoLanguage \/ ResolvePaths
  \/ FFmpegPresent \/ FFmpegInstall \/ FFmpegInstallFails
  \/ WhisperPresent \/ WhisperInstall \/ WhisperInstallFails
  \/ ModelPresent \/ ModelDownloadStart \/ ModelDownloadFinish \/ ModelDownloadFails
  \/ ConvertOk \/ ConvertFails
  \/ DiscoverSkip \/ DiscoverTest \/ DiscoverFound
  \/ GlobalProbeAccepted \/ GlobalProbeRejected
  \/ Execute \/ FindOutput \/ NoOutputFile
  \/ ReadOutput \/ ReadFails \/ CleanupAndRespond \/ CleanupAndThrow
  \/ V1NoFile \/ V1ResolvePaths \/ V1ConvertOk \/ V1ConvertFails
  \/ V1WhisperFound \/ V1WhisperMissing \/ V1Execute
  \/ V1ReadOutput \/ V1ReadFails \/ V1CleanupAndRespond \/ V1CleanupFails

Spec == Init /\ [][Next]_vars


\* ------------------------------------------------------------- installers
\* installFFmpeg / installFFmpegLinux (unnamed/part_001) and installWhisper
\* (utils/whisperInstaller.js), one step per await or process call.  Deleting
\* an installer's own temporary file is taken to succeed.

\* unnamed/part_001:87-90
FFmpegLinuxUrls == <<"release", "git">>

\* unnamed/part_001:164  zipUrl
FFmpegWindowsUrl == "ffmpeg-master-latest-win64-gpl.zip"

\* utils/whisperInstaller.js:201  whisperUrl
WhisperWindowsUrl == "whisper-bin-x64.zip"

\* utils/whisperInstaller.js:279  url
WhisperSourceUrl == "v1.7.1.tar.gz"

\* unnamed/part_001:43-67 downloadFile: the write stream creates the file before
\* the request is answered.  "ok": 200 and a full archive; "small": 200 and a
\* body under the size threshold; "status": another status, rejected with the
\* file left behind; "neterror": request error, file unlinked.
DownloadOutcomesFFmpeg == {"ok", "small", "status", "neterror"}

\* utils/whisperInstaller.js:133-175 downloadFile: the file is created only on
\* 200; the size of the body is never looked at
DownloadOutcomesWhisper == {"ok", "small", "status", "neterror"}

\* platforms an installer can be called on (os.platform())
InstallPlatforms == Platforms \cup {"darwin"}

\* the declared download sources of the installer under way (unnamed/part_001:
\* 87-90, 164; utils/whisperInstaller.js:201, 279)
DownloadSources ==
  CASE itool = "ffmpeg" /\ platform = "linux" -> FFmpegLinuxUrls
    [] itool = "ffmpeg" -> <<FFmpegWindowsUrl>>
    [] itool = "whisper" /\ platform = "win32" -> <<WhisperWindowsUrl>>
    [] OTHER -> <<WhisperSourceUrl>>

hquiet == <<extras, hist, probeLog, wasResolvable, variant, ffmpegGlobal, whisperGlobal, model, req, jobFs, pc,
            locals, responses, unlinkLog, started, engineLog>>

hrest == <<hquiet, chmodded>>

InitInstall ==
  /\ itool \in {"ffmpeg", "whisper"}
  /\ platform \in InstallPlatforms
  /\ ipc = "start"
  /\ mirror = 1
  /\ archive = FALSE
  /\ extractDir = FALSE
  /\ iresult = "running"
  /\ wimpl \in (IF itool = "whisper" /\ platform = "win32"
                THEN {"whisperInstaller", "ffmpegInstaller"}
                ELSE {"whisperInstaller"})
  /\ contacted = <<>>
  /\ unblock = "idle"
  /\ ffmpegLocal \in (IF itool = "ffmpeg" THEN BOOLEAN ELSE {FALSE})
  /\ ffmpegGlobal \in (IF itool = "ffmpeg" THEN BOOLEAN ELSE {FALSE})
  /\ whisperFiles \in (IF itool = "whisper" THEN SUBSET WhisperLocalNames(platform) ELSE {{}})
  /\ whisperGlobal \in (IF itool = "whisper" THEN BOOLEAN ELSE {FALSE})
  /\ wasResolvable = (IF itool = "ffmpeg"
                      THEN isFFmpegInstalledSync(ffmpegLocal, ffmpegGlobal)
                      ELSE isWhisperInstalledSync(platform, whisperFiles, whisperGlobal))
  /\ variant = 2
  /\ model = "absent"
  /\ chmodded = {}
  /\ hasFile = FALSE
  /\ language = ""
  /\ files = {}
  /\ jsonContent = JInvalid
  /\ pc = "idle"
  /\ ffmpegPath = "local"
  /\ whisperPath = "null"
  /\ idx = 1
  /\ whisperOutput = ""
  /\ responses = <<>>
  /\ written = {}
  /\ attempted = {}
  /\ unlinkFailed = {}
  /\ started = {}
  /\ tested = <<>>
  /\ engineLang = ""
  /\ converted = "no"
  /\ cleanupBlock = "none"
  /\ convertError = NoExec
  /\ lastTestOut = "none"
  /\ engineResult = NoExec
  /\ installThrew = "none"
  /\ FindIdle
  /\ JobsIdle
  /\ VersionsIdle
  /\ DownloadIdle

Return(r) == ipc' = "done" /\ iresult' = r

\* unnamed/part_001:153-162: installFFmpeg dispatches on the platform
FFStart ==
  /\ itool = "ffmpeg" /\ ipc = "start"
  /\ platform \in {"linux", "win32"}
  /\ ipc' = IF platform = "linux" THEN "ffLinuxDownload" ELSE "ffWinDownload"
  /\ UNCHANGED <<hrest, wimpl, contacted, unblock, platform, ffmpegLocal, whisperFiles, itool, mirror, archive,
                 extractDir, iresult>>

\* unnamed/part_001:160-184: neither branch is taken on another platform, the
\* try block ends and installFFmpeg returns
FFOtherPlatform ==
  /\ itool = "ffmpeg" /\ ipc = "start"
  /\ platform \notin {"linux", "win32"}
  /\ Return("ok")
  /\ UNCHANGED <<hrest, wimpl, contacted, unblock, platform, ffmpegLocal, whisperFiles, itool, mirror, archive,
                 extractDir>>

\* unnamed/part_001:95-110: a mirror delivers an archive of plausible size
FFLinuxDownloadOk ==
  /\ ipc = "ffLinuxDownload"
  /\ mirror <= Len(FFmpegLinuxUrls)
  /\ archive' = TRUE
  /\ contacted' = Append(contacted, [src |-> FFmpegLinuxUrls[mirror], outcome |-> "ok"])
  /\ ipc' = "ffLinuxExtract"
  /\ UNCHANGED <<hrest, wimpl, unblock, platform, ffmpegLocal, whisperFiles, itool, mirror,
                 extractDir, iresult>>

\* FFLinuxDownloadFails without the fallback: the first failure ends the install
FFLinuxDownloadFails_GiveUp ==
  /\ ipc = "ffLinuxDownload"
  /\ mirror <= Len(FFmpegLinuxUrls)
  /\ \E o \in DownloadOutcomesFFmpeg \ {"ok"} :
       /\ archive' = (o # "neterror")
       /\ contacted' = Append(contacted, [src |-> FFmpegLinuxUrls[mirror], outcome |-> o])
  /\ Return("threw")
  /\ UNCHANGED <<hrest, wimpl, unblock, platform, ffmpegLocal, whisperFiles, itool, mirror,
                 extractDir>>

\* unnamed/part_001:95-114: the mirror fails; the loop goes on to the next one
FFLinuxDownloadFails ==
  /\ ipc = "ffLinuxDownload"
  /\ mirror <= Len(FFmpegLinuxUrls)
  /\ \E o \in DownloadOutcomesFFmpeg \ {"ok"} :
       /\ archive' = (o # "neterror")
       /\ contacted' = Append(contacted, [src |-> FFmpegLinuxUrls[mirror], outcome |-> o])
  /\ mirror' = mirror + 1
  /\ UNCHANGED <<hrest, wimpl, unblock, platform, ffmpegLocal, whisperFiles, itool, ipc,
                 extractDir, iresult>>

\* unnamed/part_001:117-119
FFLinuxAllMirrorsFailed ==
  /\ ipc = "ffLinuxDownload"
  /\ mirror > Len(FFmpegLinuxUrls)
  /\ Return("threw")
  /\ UNCHANGED <<hrest, wimpl, contacted, unblock, platform, ffmpegLocal, whisperFiles, itool, mirror, archive,
                 extractDir>>

\* unnamed/part_001:121-150: tar succeeds (wildcard or stripped extraction into
\* bin/), the archive is deleted, the binary is checked
FFLinuxExtract ==
  /\ ipc = "ffLinuxExtract"
  /\ \E found \in BOOLEAN :
       /\ ffmpegLocal' = found
       /\ Return(IF found THEN "ok" ELSE "threw")
  /\ archive' = FALSE
  /\ UNCHANGED <<hrest, wimpl, contacted, unblock, platform, whisperFiles, itool, mirror, extractDir>>

\* unnamed/part_001:130-150: plain extraction leaves the archive's tree in bin/;
\* the binary is moved out of it when found
FFLinuxExtractPlain ==
  /\ ipc = "ffLinuxExtract"
  /\ extractDir' = TRUE
  /\ \E found \in BOOLEAN :
       /\ ffmpegLocal' = found
       /\ Return(IF found THEN "ok" ELSE "threw")
  /\ archive' = FALSE
  /\ UNCHANGED <<hrest, wimpl, contacted, unblock, platform, whisperFiles, itool, mirror>>

\* unnamed/part_001:133: the last tar call throws
FFLinuxExtractFails ==
  /\ ipc = "ffLinuxExtract"
  /\ Return("threw")
  /\ UNCHANGED <<hrest, wimpl, contacted, unblock, platform, ffmpegLocal, whisperFiles, itool, mirror, archive,
                 extractDir>>

\* unnamed/part_001:163-169: any 200 answer counts, the size is not looked at
FFWinDownloadOk ==
  /\ ipc = "ffWinDownload"
  /\ archive' = TRUE
  /\ \E o \in {"ok", "small"} :
       contacted' = Append(contacted, [src |-> FFmpegWindowsUrl, outcome |-> o])
  /\ ipc' = "ffWinExtract"
  /\ UNCHANGED <<hrest, wimpl, unblock, platform, ffmpegLocal, whisperFiles, itool, mirror,
                 extractDir, iresult>>

\* unnamed/part_001:169, 185-188
FFWinDownloadFails ==
  /\ ipc = "ffWinDownload"
  /\ \E o \in {"status", "neterror"} :
       /\ archive' = (o = "status")
       /\ contacted' = Append(contacted, [src |-> FFmpegWindowsUrl, outcome |-> o])
  /\ Return("threw")
  /\ UNCHANGED <<hrest, wimpl, unblock, platform, ffmpegLocal, whisperFiles, itool, mirror,
                 extractDir>>

\* unnamed/part_001:172
FFWinExtractOk ==
  /\ ipc = "ffWinExtract"
  /\ extractDir' = TRUE
  /\ ipc' = "ffWinFind"
  /\ UNCHANGED <<hrest, wimpl, contacted, unblock, platform, ffmpegLocal, whisperFiles, itool, mirror, archive,
                 iresult>>

\* unnamed/part_001:172, 185-188: Expand-Archive fails, possibly half way
FFWinExtractFails ==
  /\ ipc = "ffWinExtract"
  /\ extractDir' \in BOOLEAN
  /\ Return("threw")
  /\ UNCHANGED <<hrest, wimpl, contacted, unblock, platform, ffmpegLocal, whisperFiles, itool, mirror, archive>>

\* unnamed/part_001:174-183: ffmpeg.exe copied, then the temporary files removed
FFWinFound ==
  /\ ipc = "ffWinFind"
  /\ ffmpegLocal' = TRUE
  /\ archive' = FALSE
  /\ extractDir' = FALSE
  /\ Return("ok")
  /\ UNCHANGED <<hrest, wimpl, contacted, unblock, platform, whisperFiles, itool, mirror>>

\* unnamed/part_001:178-180, 185-188: the throw skips lines 182-183
FFWinNotFound ==
  /\ ipc = "ffWinFind"
  /\ Return("threw")
  /\ UNCHANGED <<hrest, wimpl, contacted, unblock, platform, ffmpegLocal, whisperFiles, itool, mirror, archive,
                 extractDir>>

\* utils/whisperInstaller.js:346-352
WhisperAlreadyInstalled ==
  /\ itool = "whisper" /\ ipc = "start"
  /\ isWhisperInstalledSync(platform, whisperFiles, whisperGlobal)
  /\ Return("ok")
  /\ UNCHANGED <<hrest, wimpl, contacted, unblock, platform, ffmpegLocal, whisperFiles, itool, mirror, archive,
                 extractDir>>

\* utils/whisperInstaller.js:354-359
WhisperStart ==
  /\ itool = "whisper" /\ ipc = "start"
  /\ ~isWhisperInstalledSync(platform, whisperFiles, whisperGlobal)
  /\ ipc' = IF platform = "win32" THEN "wWinDownload" ELSE "wUnixTools"
  /\ UNCHANGED <<hrest, wimpl, contacted, unblock, platform, ffmpegLocal, whisperFiles, itool, mirror, archive,
                 extractDir, iresult>>

\* utils/whisperInstaller.js:260-265, 337-343: the finally block
Finally == archive' = FALSE /\ extractDir' = FALSE

\* utils/whisperInstaller.js:208-209: any 200 answer counts
WWinDownloadOk ==
  /\ ipc = "wWinDownload"
  /\ archive' = TRUE
  /\ \E o \in DownloadOutcomesWhisper \cap {"ok", "small"} :
       contacted' = Append(contacted, [src |-> WhisperWindowsUrl, outcome |-> o])
  /\ ipc' = "wWinExtract"
  /\ UNCHANGED <<hrest, wimpl, unblock, platform, ffmpegLocal, whisperFiles, itool, mirror,
                 extractDir, iresult>>

\* utils/whisperInstaller.js:209, 257-265
WWinDownloadFails ==
  /\ ipc = "wWinDownload"
  /\ \E o \in DownloadOutcomesWhisper \ {"ok", "small"} :
       contacted' = Append(contacted, [src |-> WhisperWindowsUrl, outcome |-> o])
  /\ Finally
  /\ Return("threw")
  /\ UNCHANGED <<hrest, wimpl, unblock, platform, ffmpegLocal, whisperFiles, itool, mirror>>

\* utils/whisperInstaller.js:211-224
WWinExtractOk ==
  /\ ipc = "wWinExtract"
  /\ extractDir' = TRUE
  /\ ipc' = "wWinFind"
  /\ UNCHANGED <<hrest, wimpl, contacted, unblock, platform, ffmpegLocal, whisperFiles, itool, mirror, archive,
                 iresult>>

\* utils/whisperInstaller.js:217-221, 257-265
WWinExtractFails ==
  /\ ipc = "wWinExtract"
  /\ Finally
  /\ Return("threw")
  /\ UNCHANGED <<hrest, wimpl, contacted, unblock, platform, ffmpegLocal, whisperFiles, itool, mirror>>

\* utils/whisperInstaller.js:226-256: binary and DLLs copied, then the unblock
\* command is started and awaited
WWinFound ==
  /\ ipc = "wWinFind"
  /\ wimpl = "whisperInstaller"
  /\ whisperFiles' = whisperFiles \cup {InstalledWhisperName(platform)}
  /\ unblock' = "running"
  /\ ipc' = "wWinUnblock"
  /\ UNCHANGED <<hrest, wimpl, contacted, platform, ffmpegLocal, itool, mirror, archive,
                 extractDir, iresult>>

\* the powershell process of the unblock command exits (its status is ignored:
\* utils/whisperInstaller.js:248-253, utils/ffmpegInstaller.js:444)
UnblockExits ==
  /\ unblock = "running"
  /\ unblock' = "done"
  /\ UNCHANGED <<hrest, wimpl, contacted, platform, ffmpegLocal, whisperFiles, itool, ipc,
                 mirror, archive, extractDir, iresult>>

\* utils/whisperInstaller.js:248-265: the awaited unblock command has ended
WWinUnblocked ==
  /\ ipc = "wWinUnblock"
  /\ unblock = "done"
  /\ Finally
  /\ Return("ok")
  /\ UNCHANGED <<hrest, wimpl, contacted, unblock, platform, ffmpegLocal, whisperFiles, itool,
                 mirror>>

\* utils/ffmpegInstaller.js:428-456: binary and DLLs copied, the unblock
\* command is started and not awaited, the finally block runs, the call resolves
WWinFoundNoWait ==
  /\ ipc = "wWinFind"
  /\ wimpl = "ffmpegInstaller"
  /\ whisperFiles' = whisperFiles \cup {InstalledWhisperName(platform)}
  /\ unblock' = "running"
  /\ Finally
  /\ Return("ok")
  /\ UNCHANGED <<hrest, wimpl, contacted, platform, ffmpegLocal, itool, mirror>>

\* utils/whisperInstaller.js:229-231, 257-265
WWinNotFound ==
  /\ ipc = "wWinFind"
  /\ Finally
  /\ Return("threw")
  /\ UNCHANGED <<hrest, wimpl, contacted, unblock, platform, ffmpegLocal, whisperFiles, itool, mirror>>

\* utils/whisperInstaller.js:283-288, 334-343: make or tar is missing
WUnixNoTools ==
  /\ ipc = "wUnixTools"
  /\ Finally
  /\ Return("threw")
  /\ UNCHANGED <<hrest, wimpl, contacted, unblock, platform, ffmpegLocal, whisperFiles, itool, mirror>>

\* utils/whisperInstaller.js:283-298: the tools are there, any 200 answer counts
WUnixDownloadOk ==
  /\ ipc = "wUnixTools"
  /\ archive' = TRUE
  /\ \E o \in DownloadOutcomesWhisper \cap {"ok", "small"} :
       contacted' = Append(contacted, [src |-> WhisperSourceUrl, outcome |-> o])
  /\ ipc' = "wUnixExtract"
  /\ UNCHANGED <<hrest, wimpl, unblock, platform, ffmpegLocal, whisperFiles, itool, mirror,
                 extractDir, iresult>>

\* utils/whisperInstaller.js:298, 334-343
WUnixDownloadFails ==
  /\ ipc = "wUnixTools"
  /\ \E o \in DownloadOutcomesWhisper \ {"ok", "small"} :
       contacted' = Append(contacted, [src |-> WhisperSourceUrl, outcome |-> o])
  /\ Finally
  /\ Return("threw")
  /\ UNCHANGED <<hrest, wimpl, unblock, platform, ffmpegLocal, whisperFiles, itool, mirror>>

\* utils/whisperInstaller.js:300-307: build directory made, source extracted
WUnixExtractOk ==
  /\ ipc = "wUnixExtract"
  /\ extractDir' = TRUE
  /\ ipc' = "wUnixBuild"
  /\ UNCHANGED <<hrest, wimpl, contacted, unblock, platform, ffmpegLocal, whisperFiles, itool, mirror, archive,
                 iresult>>

\* utils/whisperInstaller.js:303-307, 334-343: tar throws
WUnixExtractFails ==
  /\ ipc = "wUnixExtract"
  /\ Finally
  /\ Return("threw")
  /\ UNCHANGED <<hrest, wimpl, contacted, unblock, platform, ffmpegLocal, whisperFiles, itool, mirror>>

\* utils/whisperInstaller.js:309-332, 337-343: make succeeds, `main' exists, it
\* is copied to bin/whisper and made executable
WUnixBuilt ==
  /\ ipc = "wUnixBuild"
  /\ whisperFiles' = whisperFiles \cup {InstalledWhisperName(platform)}
  /\ chmodded' = chmodded \cup {"whisper"}
  /\ Finally
  /\ Return("ok")
  /\ UNCHANGED <<hquiet, wimpl, contacted, unblock, platform, ffmpegLocal, itool, mirror>>

\* utils/whisperInstaller.js:310-326, 334-343: make fails or `main' is missing
WUnixBuildFails ==
  /\ ipc = "wUnixBuild"
  /\ Finally
  /\ Return("threw")
  /\ UNCHANGED <<hrest, wimpl, contacted, unblock, platform, ffmpegLocal, whisperFiles, itool, mirror>>

\* utils/whisperInstaller.js:329-330, 334-343: `main' was copied to bin/whisper
\* and fsPromises.chmod throws
WUnixChmodFails ==
  /\ ipc = "wUnixBuild"
  /\ whisperFiles' = whisperFiles \cup {InstalledWhisperName(platform)}
  /\ Finally
  /\ Return("threw")
  /\ UNCHANGED <<hrest, wimpl, contacted, unblock, platform, ffmpegLocal, itool, mirror>>

NextInstall ==
  \/ FFStart \/ FFOtherPlatform
  \/ FFLinuxDownloadOk \/ FFLinuxDownloadFails \/ FFLinuxAllMirrorsFailed
  \/ FFLinuxExtract \/ FFLinuxExtractPlain \/ FFLinuxExtractFails
  \/ FFWinDownloadOk \/ FFWinDownloadFails
  \/ FFWinExtractOk \/ FFWinExtractFails \/ FFWinFound \/ FFWinNotFound
  \/ WhisperAlreadyInstalled \/ WhisperStart
  \/ WWinDownloadOk \/ WWinDownloadFails \/ WWinExtractOk \/ WWinExtractFails
  \/ WWinFound \/ UnblockExits \/ WWinUnblocked \/ WWinFoundNoWait \/ WWinNotFound
  \/ WUnixNoTools \/ WUnixDownloadOk \/ WUnixDownloadFails
  \/ WUnixExtractOk \/ WUnixExtractFails \/ WUnixBuilt \/ WUnixBuildFails
  \/ WUnixChmodFails

SpecInstall == InitInstall /\ [][NextInstall]_vars


\* ------------------------------------------------- search of an extracted archive
\* entries of one directory of the modelled archive, at most
MaxEntries == 2

\* file names an archive can hold (one of them in upper case)
FileNames == {"MAIN.EXE", "whisper-cli.exe", "whisper.exe", "ggml.dll"}

\* String.prototype.toLowerCase on the modelled names
toLowerCase(n) == IF n = "MAIN.EXE" THEN "main.exe" ELSE n

\* utils/whisperInstaller.js:227: the ordered list of acceptable names
BinaryPatterns == <<"main.exe", "whisper-cli.exe", "whisper.exe">>

SeqsUpTo(S, n) == UNION {[1..k -> S] : k \in 0..n}

\* a Dirent: a file, or a directory with its entries in readdir order
File(n) == [dir |-> FALSE, name |-> n, items |-> <<>>]

Dir(xs) == [dir |-> TRUE, name |-> "dir", items |-> xs]

\* archives: files and directories of files, in the order readdir lists them
Trees ==
  LET leaves == {File(n) : n \in FileNames}
  IN  SeqsUpTo(leaves \cup {Dir(xs) : xs \in SeqsUpTo(leaves, MaxEntries)}, MaxEntries)

\* utils/whisperInstaller.js:183: filenamePatterns.some(...)
MatchesPattern(name, patterns) ==
  \E i \in 1..Len(patterns) : toLowerCase(name) = toLowerCase(patterns[i])

\* utils/whisperInstaller.js:177-192: depth-first over the entries in readdir
\* order; "null" when nothing matches
RECURSIVE findFileRecursively(_, _)
findFileRecursively(items, patterns) ==
  IF items = <<>> THEN "null"
  ELSE LET item == Head(items)
       IN  IF ~item.dir
           THEN IF MatchesPattern(item.name, patterns)
                THEN item.name
                ELSE findFileRecursively(Tail(items), patterns)
           ELSE LET inDir == findFileRecursively(item.items, patterns)
                IN  IF inDir # "null"
                    THEN inDir
                    ELSE findFileRecursively(Tail(items), patterns)

\* no request is under way in the archive and job models
HandlerIdle ==
  /\ variant = 2
  /\ platform = "win32"
  /\ ffmpegLocal = FALSE
  /\ ffmpegGlobal = FALSE
  /\ whisperFiles = {}
  /\ whisperGlobal = FALSE
  /\ model = "absent"
  /\ chmodded = {}
  /\ hasFile = FALSE
  /\ language = ""
  /\ files = {}
  /\ jsonContent = JInvalid
  /\ pc = "idle"
  /\ ffmpegPath = "local"
  /\ whisperPath = "null"
  /\ idx = 1
  /\ whisperOutput = ""
  /\ responses = <<>>
  /\ written = {}
  /\ attempted = {}
  /\ unlinkFailed = {}
  /\ started = {}
  /\ tested = <<>>
  /\ engineLang = ""
  /\ converted = "no"
  /\ cleanupBlock = "none"
  /\ convertError = NoExec
  /\ lastTestOut = "none"
  /\ engineResult = NoExec
  /\ installThrew = "none"

InitFind ==
  /\ HandlerIdle
  /\ InstallerIdle
  /\ JobsIdle
  /\ VersionsIdle
  /\ DownloadIdle
  /\ tree \in Trees
  /\ binarySource = "pending"

\* utils/whisperInstaller.js:226-227
FindBinary ==
  /\ binarySource = "pending"
  /\ binarySource' = findFileRecursively(tree, BinaryPatterns)
  /\ UNCHANGED <<hvars, ivars, jvars, vvars, dvars, tree>>

NextFind == FindBinary

SpecFind == InitFind /\ [][NextFind]_vars


\* ------------------------------------- versioned Windows install of the engine
\* utils/ffmpegInstaller.js:711-722: the releases tried, with the binary names
\* accepted from each
WhisperVersions ==
  <<[version |-> "v1.5.5", binaries |-> <<"main.exe">>],
    [version |-> "v1.8.3", binaries |-> <<"whisper-cli.exe">>]>>

\* everything the versioned installer leaves alone
vquiet == <<jvars, dvars, variant, platform, ffmpegLocal, ffmpegGlobal, whisperGlobal, model,
            chmodded, hasFile, language, files, jsonContent, pc, ffmpegPath,
            whisperPath, idx, whisperOutput, responses, written, attempted,
            unlinkFailed, started, tested, engineLang, converted, cleanupBlock,
            convertError, lastTestOut, engineResult, installThrew,
            itool, mirror, wasResolvable, wimpl, unblock>>

InitVersions ==
  /\ HandlerIdle
  /\ JobsIdle
  /\ VersionsIdle
  /\ DownloadIdle
  /\ itool = "whisper"
  /\ ipc = "vLoop"
  /\ mirror = 1
  /\ archive \in BOOLEAN
  /\ extractDir \in BOOLEAN
  /\ iresult = "ok"
  /\ wasResolvable = FALSE
  /\ wimpl = "ffmpegInstaller"
  /\ contacted = <<>>
  /\ unblock = "idle"
  /\ tree = <<>>
  /\ binarySource = "pending"

\* utils/ffmpegInstaller.js:818-820 and 815: the attempt is given up, the loop
\* goes on to the next release
NextAttempt ==
  /\ ipc' = "vLoop"
  /\ attemptIdx' = attemptIdx + 1

\* utils/ffmpegInstaller.js:729-737: leftovers removed, the archive of this
\* release is downloaded
VDownloadOk ==
  /\ ipc = "vLoop"
  /\ attemptIdx <= Len(WhisperVersions)
  /\ contacted' = Append(contacted, [src |-> WhisperVersions[attemptIdx].version, outcome |-> "ok"])
  /\ archive' = TRUE
  /\ extractDir' = FALSE
  /\ ipc' = "vExtract"
  /\ UNCHANGED <<vquiet, whisperFiles, iresult, fvars, vvars>>

\* utils/ffmpegInstaller.js:737, 818-820: the download rejects
VDownloadFails ==
  /\ ipc = "vLoop"
  /\ attemptIdx <= Len(WhisperVersions)
  /\ \E o \in {"status", "neterror"} :
       contacted' = Append(contacted, [src |-> WhisperVersions[attemptIdx].version, outcome |-> o])
  /\ archive' = FALSE
  /\ extractDir' = FALSE
  /\ NextAttempt
  /\ UNCHANGED <<vquiet, whisperFiles, iresult, fvars, installed>>

\* utils/ffmpegInstaller.js:741-760: the archive is expanded and searched for
\* the names accepted from this release
VExtract ==
  /\ ipc = "vExtract"
  /\ \E t \in Trees :
       /\ tree' = t
       /\ binarySource' = findFileRecursively(t, WhisperVersions[attemptIdx].binaries)
  /\ extractDir' = TRUE
  /\ ipc' = "vSearched"
  /\ UNCHANGED <<vquiet, whisperFiles, iresult, archive, contacted, vvars>>

\* utils/ffmpegInstaller.js:746-755, 818-820: Expand-Archive fails
VExtractFails ==
  /\ ipc = "vExtract"
  /\ extractDir' = TRUE
  /\ NextAttempt
  /\ UNCHANGED <<vquiet, whisperFiles, iresult, archive, contacted, fvars, installed>>

\* utils/ffmpegInstaller.js:814-816
VNotFound ==
  /\ ipc = "vSearched"
  /\ binarySource = "null"
  /\ NextAttempt
  /\ UNCHANGED <<vquiet, whisperFiles, iresult, archive, extractDir, contacted, fvars, installed>>

\* utils/ffmpegInstaller.js:762-770: the binary found is copied to whisper-core.exe
VCopyBinary ==
  /\ ipc = "vSearched"
  /\ binarySource # "null"
  /\ whisperFiles' = whisperFiles \cup {"whisper-core.exe"}
  /\ ipc' = "vSiblings"
  /\ UNCHANGED <<vquiet, iresult, archive, extractDir, contacted, fvars, vvars>>

\* utils/ffmpegInstaller.js:774-813: the files next to the binary are copied,
\* the files are unblocked, the old names are removed, the loop is left
VSiblingsCopied ==
  /\ ipc = "vSiblings"
  /\ whisperFiles' = whisperFiles \ {"whisper.exe", "whisper-main.exe"}
  /\ installed' = TRUE
  /\ ipc' = "vFinal"
  /\ UNCHANGED <<vquiet, iresult, archive, extractDir, contacted, fvars, attemptIdx>>

\* utils/ffmpegInstaller.js:774-786, 818-820: readdir, stat or copyFile of a
\* neighbouring file throws (a DLL in use in bin/, for one); caught as a
\* failure of the attempt
VSiblingCopyFails ==
  /\ ipc = "vSiblings"
  /\ NextAttempt
  /\ UNCHANGED <<vquiet, whisperFiles, iresult, archive, extractDir, contacted, fvars, installed>>

\* utils/ffmpegInstaller.js:823-831: final cleanup; throws unless `installed'
VFinish ==
  /\ \/ ipc = "vFinal"
     \/ ipc = "vLoop" /\ attemptIdx > Len(WhisperVersions)
  /\ archive' = FALSE
  /\ extractDir' = FALSE
  /\ iresult' = IF installed THEN "ok" ELSE "threw"
  /\ ipc' = "off"
  /\ UNCHANGED <<vquiet, whisperFiles, contacted, fvars, vvars>>

NextVersions ==
  \/ VDownloadOk \/ VDownloadFails
  \/ VExtract \/ VExtractFails
  \/ VNotFound \/ VCopyBinary
  \/ VSiblingsCopied \/ VSiblingCopyFails
  \/ VFinish

SpecVersions == InitVersions /\ [][NextVersions]_vars


\* ------------------------------------------------------------- downloadFile
\* the implementations: utils/whisperInstaller.js:133-175 (the one of
\* utils/ffmpegInstaller.js:86-137 is the same code) and unnamed/part_001:43-67
DownloadImpls == {"whisperInstaller", "part_001"}

Urls == {"u1", "u2"}

\* response.statusCode values the code tells apart
RedirectCodes == {301, 302, 307, 308}

\* what a server does with a request: no answer (connection error), or a
\* status line; a redirect may come without a Location header
ServerAnswers ==
  {[kind |-> "neterror", status |-> 0, location |-> "none"]}
  \cup {[kind |-> "status", status |-> c, location |-> "none"] : c \in {200, 404}}
  \cup {[kind |-> "status", status |-> 302, location |-> l] : l \in Urls \cup {"undefined"}}

InitDownload ==
  /\ HandlerIdle
  /\ InstallerIdle
  /\ FindIdle
  /\ JobsIdle
  /\ VersionsIdle
  /\ dlImpl \in DownloadImpls
  /\ server \in [Urls -> ServerAnswers]
  /\ dlUrl = "u1"
  /\ dlState = "call"
  /\ dlFile = "absent"
  /\ dlStatus = 0

dquiet == <<hvars, ivars, fvars, jvars, vvars, dlImpl, server>>

\* unnamed/part_001:45: the write stream is opened before the request is made
FileAtCall == IF dlImpl = "part_001" THEN "empty" ELSE dlFile

\* whisperInstaller.js:142 / part_001:46: the request is made
DLRequest ==
  /\ dlState = "call"
  /\ dlUrl \in Urls
  /\ dlFile' = FileAtCall
  /\ dlState' = "requesting"
  /\ UNCHANGED <<dquiet, dlUrl, dlStatus>>

\* whisperInstaller.js:142 / part_001:46: https.get(undefined) throws inside
\* the executor, which rejects the promise
DLBadUrl ==
  /\ dlState = "call"
  /\ dlUrl \notin Urls
  /\ dlFile' = FileAtCall
  /\ dlState' = "rejected"
  /\ UNCHANGED <<dquiet, dlUrl, dlStatus>>

\* whisperInstaller.js:170-173 / part_001:62-65: request 'error'
DLRequestError ==
  /\ dlState = "requesting"
  /\ server[dlUrl].kind = "neterror"
  /\ dlFile' = "absent"
  /\ dlState' = "rejected"
  /\ UNCHANGED <<dquiet, dlUrl, dlStatus>>

\* whisperInstaller.js:144-146 / part_001:49-52: the call is made again with
\* the Location header, whatever it is and however often
DLRedirect ==
  /\ dlState = "requesting"
  /\ server[dlUrl].kind = "status"
  /\ server[dlUrl].status \in RedirectCodes
  /\ dlStatus' = server[dlUrl].status
  /\ dlUrl' = server[dlUrl].location
  /\ dlState' = "call"
  /\ UNCHANGED <<dquiet, dlFile>>

\* whisperInstaller.js:148-150 / part_001:53-56: any other status rejects
DLBadStatus ==
  /\ dlState = "requesting"
  /\ server[dlUrl].kind = "status"
  /\ server[dlUrl].status \notin RedirectCodes \cup {200}
  /\ dlStatus' = server[dlUrl].status
  /\ dlState' = "rejected"
  /\ UNCHANGED <<dquiet, dlUrl, dlFile>>

\* whisperInstaller.js:152-158 / part_001:57: the body is piped to the file
DLPipe ==
  /\ dlState = "requesting"
  /\ server[dlUrl].kind = "status"
  /\ server[dlUrl].status = 200
  /\ dlStatus' = 200
  /\ dlFile' = "partial"
  /\ dlState' = "piping"
  /\ UNCHANGED <<dquiet, dlUrl>>

\* whisperInstaller.js:160-162 / part_001:58-60: 'finish', close, resolve
DLFinish ==
  /\ dlState = "piping"
  /\ dlFile' = "complete"
  /\ dlState' = "resolved"
  /\ UNCHANGED <<dquiet, dlUrl, dlStatus>>

\* whisperInstaller.js:164-167: file 'error' unlinks and rejects; part_001 has
\* no such handler, the error event is unhandled and the promise is left as it is
DLWriteError ==
  /\ dlState = "piping"
  /\ IF dlImpl = "part_001"
     THEN dlFile' = dlFile /\ dlState' = "abandoned"
     ELSE dlFile' = "absent" /\ dlState' = "rejected"
  /\ UNCHANGED <<dquiet, dlUrl, dlStatus>>

\* the connection is cut after the status line: neither implementation
\* listens to the response's 'error' or 'aborted', pipe does not end the file
DLBodyAborted ==
  /\ dlState = "piping"
  /\ dlState' = "abandoned"
  /\ UNCHANGED <<dquiet, dlUrl, dlFile, dlStatus>>

NextDownload ==
  \/ DLRequest \/ DLBadUrl \/ DLRequestError \/ DLRedirect \/ DLBadStatus
  \/ DLPipe \/ DLFinish \/ DLWriteError \/ DLBodyAborted

\* every call that can go on does go on
SpecDownload == InitDownload /\ [][NextDownload]_vars /\ WF_vars(NextDownload)


\* ------------------------------------------------------------ concurrent jobs
\* requests in flight at once
NumJobs == 2

\* last value of Date.now() the model reaches
MaxClock == 2

Jobs == 1..NumJobs

\* file.originalname of an upload
OriginalNames == {"a.mp3", "b.mp3"}

NoPath == [dir |-> "none", t |-> 0, name |-> ""]

\* server.js:244-246: Date.now() + '-' + file.originalname under UPLOADS_DIR
UploadPath(t, n) == [dir |-> "uploads", t |-> t, name |-> n]

\* server.js:399-406: <timestamp>.wav and <timestamp>.json under TEMP_DIR
ScratchPath(id, ext) == [dir |-> "temp", t |-> id, name |-> ext]

\* job j writes the file at path p, over whatever is there
WriteFile(p, j) ==
  /\ disk' = {f \in disk : f.path # p} \cup {[path |-> p, by |-> j]}
  /\ clobbered' = clobbered \cup {f.by : f \in {g \in disk : g.path = p /\ g.by # j}}

\* job j unlinks the files at the paths ps, whoever wrote them
UnlinkFiles(ps, j) ==
  /\ disk' = {f \in disk : f.path \notin ps}
  /\ clobbered' = clobbered \cup {f.by : f \in {g \in disk : g.path \in ps /\ g.by # j}}

\* the handler state of the job model except the model file
hNoModel == <<variant, platform, ffmpegLocal, ffmpegGlobal, whisperFiles, whisperGlobal,
              chmodded, hasFile, language, files, jsonContent, pc, ffmpegPath,
              whisperPath, idx, whisperOutput, responses, written, attempted,
              unlinkFailed, started, tested, engineLang, converted, cleanupBlock,
              convertError, lastTestOut, engineResult, installThrew>>

InitJobs ==
  /\ HandlerIdle
  /\ InstallerIdle
  /\ FindIdle
  /\ VersionsIdle
  /\ DownloadIdle
  /\ clock = 1
  /\ jstage = [j \in Jobs |-> "idle"]
  /\ jupload = [j \in Jobs |-> NoPath]
  /\ jid = [j \in Jobs |-> 0]
  /\ disk = {}
  /\ clobbered = {}
  /\ engineModel = [j \in Jobs |-> "none"]

\* the event loop is free: no request is inside a synchronous child-process
\* call (execSync returns only when the child has exited)
LoopFree == \A j \in Jobs : jstage[j] # "probing"

\* a millisecond passes
Tick ==
  /\ clock < MaxClock
  /\ clock' = clock + 1
  /\ UNCHANGED <<hvars, ivars, fvars, vvars, dvars, jstage, jupload, jid, disk, clobbered, engineModel>>

\* server.js:240-247: multer stores the upload before the handler runs
StoreUpload(j) ==
  /\ LoopFree
  /\ jstage[j] = "idle"
  /\ \E n \in OriginalNames :
       /\ jupload' = [jupload EXCEPT ![j] = UploadPath(clock, n)]
       /\ WriteFile(UploadPath(clock, n), j)
  /\ jstage' = [jstage EXCEPT ![j] = "uploaded"]
  /\ UNCHANGED <<hvars, ivars, fvars, vvars, dvars, clock, jid, engineModel>>

\* server.js:341 -> utils/whisperInstaller.js:29-37: with no engine in bin/ the
\* install check runs execSync('where whisper'), which holds the event loop
ProbeStart(j) ==
  /\ LoopFree
  /\ jstage[j] = "uploaded"
  /\ jstage' = [jstage EXCEPT ![j] = "probing"]
  /\ UNCHANGED <<hvars, ivars, fvars, vvars, dvars, clock, jupload, jid, disk, clobbered, engineModel>>

\* utils/whisperInstaller.js:32-35: the child exits and execSync returns
ProbeEnd(j) ==
  /\ jstage[j] = "probing"
  /\ jstage' = [jstage EXCEPT ![j] = "checked"]
  /\ UNCHANGED <<hvars, ivars, fvars, vvars, dvars, clock, jupload, jid, disk, clobbered, engineModel>>

\* server.js:358: the model file is there
JobModelPresent(j) ==
  /\ LoopFree
  /\ jstage[j] = "checked"
  /\ isModelAvailableSync(model)
  /\ jstage' = [jstage EXCEPT ![j] = "ready"]
  /\ UNCHANGED <<hvars, ivars, fvars, vvars, dvars, clock, jupload, jid, disk, clobbered, engineModel>>

\* server.js:358-381: the write stream creates the model file, the download starts
JobModelDownloadStart(j) ==
  /\ LoopFree
  /\ jstage[j] = "checked"
  /\ ~isModelAvailableSync(model)
  /\ model' = "partial"
  /\ jstage' = [jstage EXCEPT ![j] = "downloading"]
  /\ UNCHANGED <<hNoModel, ivars, fvars, vvars, dvars, clock, jupload, jid, disk, clobbered, engineModel>>

\* server.js:383-396: the writer finishes, or the download fails and the
\* request is answered with an error
JobModelDownloadEnds(j) ==
  /\ LoopFree
  /\ jstage[j] = "downloading"
  /\ \E ok \in BOOLEAN :
       /\ model' = IF ok THEN "complete" ELSE model
       /\ jstage' = [jstage EXCEPT ![j] = IF ok THEN "ready" ELSE "done"]
  /\ UNCHANGED <<hNoModel, ivars, fvars, vvars, dvars, clock, jupload, jid, disk, clobbered, engineModel>>

\* server.js:399-413: the job id is the timestamp of this moment; the
\* converter is started
TakeJobId(j) ==
  /\ LoopFree
  /\ jstage[j] = "ready"
  /\ jid' = [jid EXCEPT ![j] = clock]
  /\ jstage' = [jstage EXCEPT ![j] = "named"]
  /\ UNCHANGED <<hvars, ivars, fvars, vvars, dvars, clock, jupload, disk, clobbered, engineModel>>

\* server.js:408-413, 463-475: the converter has written <jobId>.wav; the
\* engine is started on the model file as it is
JobConvert(j) ==
  /\ LoopFree
  /\ jstage[j] = "named"
  /\ WriteFile(ScratchPath(jid[j], "wav"), j)
  /\ engineModel' = [engineModel EXCEPT ![j] = model]
  /\ jstage' = [jstage EXCEPT ![j] = "converted"]
  /\ UNCHANGED <<hvars, ivars, fvars, vvars, dvars, clock, jupload, jid>>

\* server.js:463-478: the engine has written <jobId>.json
JobExecute(j) ==
  /\ LoopFree
  /\ jstage[j] = "converted"
  /\ WriteFile(ScratchPath(jid[j], "json"), j)
  /\ jstage' = [jstage EXCEPT ![j] = "executed"]
  /\ UNCHANGED <<hvars, ivars, fvars, vvars, dvars, clock, jupload, jid, engineModel>>

\* server.js:519-524: the upload, <jobId>.wav and <jobId>.json are unlinked
JobCleanup(j) ==
  /\ LoopFree
  /\ jstage[j] = "executed"
  /\ UnlinkFiles({jupload[j], ScratchPath(jid[j], "wav"), ScratchPath(jid[j], "json")}, j)
  /\ jstage' = [jstage EXCEPT ![j] = "done"]
  /\ UNCHANGED <<hvars, ivars, fvars, vvars, dvars, clock, jupload, jid, engineModel>>

\* the steps of one request
JobStep(j) ==
  \/ StoreUpload(j) \/ ProbeStart(j) \/ ProbeEnd(j)
  \/ JobModelPresent(j) \/ JobModelDownloadStart(j) \/ JobModelDownloadEnds(j)
  \/ TakeJobId(j) \/ JobConvert(j) \/ JobExecute(j) \/ JobCleanup(j)

NextJobs ==
  \/ Tick
  \/ \E j \in Jobs : JobStep(j)

SpecJobs == InitJobs /\ [][NextJobs]_vars




\* ==================================================================== claims
Unsupported == hasFile /\ language # "" /\ language \notin SUPPORTED_LANGUAGE_CODES

\* C1: for a request whose language code is not in the supported-language
\* table, no job file (the upload included) is written to disk before the
\* request is rejected.
C1_NoWriteBeforeRejection ==
  (pc # "idle" /\ language # "" /\ language \notin SUPPORTED_LANGUAGE_CODES)
    => written = {}

\* C2: a request with an unsupported language code is answered 400
\* "Unsupported language" and starts no installation, conversion or engine
\* process; the engine's language argument is always a supported code.
C2_UnsupportedLanguageRejected ==
  /\ Unsupported => started = {}
  /\ (Unsupported /\ pc = "done")
       => responses = <<ErrorResp(400, "Unsupported language")>>
  /\ engineLang # "" => engineLang \in SUPPORTED_LANGUAGE_CODES

\* C3: when the converter cannot process the input, the response is exactly
\* the empty transcript with a success status, and the engine is not invoked.
C3_ConverterFailureDegrades ==
  (pc = "done" /\ converted = "failed")
    => /\ responses = <<emptyTranscription>>
       /\ "engine" \notin started

\* the handler has a step to take, position by position
HandlerCanStep ==
  CASE pc = "validate" -> ENABLED (NoFile \/ NoLanguage \/ ResolvePaths)
    [] pc = "checkFFmpeg" -> ENABLED (FFmpegPresent \/ FFmpegInstall \/ FFmpegInstallFails)
    [] pc = "checkWhisper" -> ENABLED (WhisperPresent \/ WhisperInstall \/ WhisperInstallFails)
    [] pc = "checkModel" -> ENABLED (ModelPresent \/ ModelDownloadStart)
    [] pc = "awaitModel" -> ENABLED (ModelDownloadFinish \/ ModelDownloadFails)
    [] pc = "convert" -> ENABLED (ConvertOk \/ ConvertFails)
    [] pc = "discover" -> ENABLED (DiscoverSkip \/ DiscoverTest \/ DiscoverFound
                                     \/ GlobalProbeAccepted \/ GlobalProbeRejected)
    [] pc = "execute" -> ENABLED Execute
    [] pc = "findOutput" -> ENABLED (FindOutput \/ NoOutputFile)
    [] pc = "read" -> ENABLED (ReadOutput \/ ReadFails)
    [] pc = "cleanup" ->
         \* CleanupAndRespond and CleanupAndThrow differ only in their guard on
         \* the text extraction; what they share is the cleanup block
         /\ ExtractText(2, jsonContent).threw \in BOOLEAN
         /\ ENABLED (\E fail \in SUBSET JobFiles :
                       DoUnlink("final", <<"input", "wav", "json">>, fail))
    [] pc = "v1validate" -> ENABLED (V1NoFile \/ V1ResolvePaths)
    [] pc = "v1convert" -> ENABLED (V1ConvertOk \/ V1ConvertFails)
    [] pc = "v1find" -> ENABLED (V1WhisperFound \/ V1WhisperMissing)
    [] pc = "v1execute" -> ENABLED V1Execute
    [] pc = "v1read" -> ENABLED (V1ReadOutput \/ V1ReadFails)
    [] pc = "v1cleanup" -> ENABLED (V1CleanupAndRespond \/ V1CleanupFails)
    [] OTHER -> FALSE

\* C4: exactly one response per job: never more than one, one when the
\* handler has nothing left to do, and a success payload's text is a string.
C4_ExactlyOneResponse ==
  /\ Len(responses) <= 1
  /\ (pc = "done") = (Len(responses) = 1)
  /\ (pc # "idle" /\ ~HandlerCanStep) => Len(responses) = 1
  /\ \A i \in 1..Len(responses) : responses[i].status = 200 => responses[i].isString

\* C4 witness: a job answered with a recovered, non-empty transcript
C4_Witness ==
  /\ pc = "done" /\ variant = 2
  /\ Len(responses) = 1
  /\ responses[1].status = 200
  /\ responses[1].text # <<>>

\* C5: when the response is sent, a deletion has been attempted for every job
\* file that exists.
C5_EveryExitAttemptsDeletion ==
  pc = "done" => files \subseteq attempted

\* the files each cleanup block of the handler is written to delete
BlockFiles(b) ==
  CASE b = "convert" -> {"input"}
    [] b = "discovery" -> {"input", "wav"}
    [] b = "nooutput" -> {"input", "wav"}
    [] b = "final" -> JobFiles
    [] OTHER -> {}

\* the response of the final stage when every deletion succeeds
FinalResponse ==
  IF ExtractText(variant, jsonContent).threw
  THEN ErrorResp(500, "Transcription failed")
  ELSE Payload(variant, jsonContent)

\* C6: a failing deletion changes neither the response nor the deletion
\* attempts for the other files of the cleanup block.
C6_CleanupNeverEscalates ==
  (pc = "done" /\ unlinkFailed # {})
    => /\ BlockFiles(cleanupBlock) \subseteq attempted
       /\ cleanupBlock = "final" => responses = <<FinalResponse>>

\* position of a candidate in the declared list (0 when it is not one)
CandIndex(c) ==
  LET cands == getWhisperBinaryPathCandidates(platform)
  IN  IF \E i \in 1..Len(cands) : cands[i] = c
      THEN CHOOSE i \in 1..Len(cands) : cands[i] = c
      ELSE 0

\* C7: discovery (server.js:433-445) self-tests candidates in declared order,
\* only candidates present on disk, none after an acceptance, and accepts a
\* candidate only after every earlier present one was tested and rejected.
C7_DiscoveryInPriorityOrder ==
  variant = 2 =>
    /\ \A i, k \in 1..Len(tested) :
         i < k => /\ CandIndex(tested[i]) > 0
                  /\ CandIndex(tested[i]) < CandIndex(tested[k])
    /\ \A i \in 1..Len(tested) : tested[i] \in whisperFiles
    /\ CandIndex(whisperPath) > 0 =>
         /\ tested # <<>> /\ tested[Len(tested)] = whisperPath
         /\ \A k \in 1..(CandIndex(whisperPath) - 1) :
              getWhisperBinaryPathCandidates(platform)[k] \in whisperFiles
                => \E i \in 1..(Len(tested) - 1) :
                     tested[i] = getWhisperBinaryPathCandidates(platform)[k]

\* C7 witness: only the last of four present candidates is accepted
C7_Witness ==
  /\ variant = 2 /\ platform = "win32"
  /\ whisperPath = "whisper.exe"
  /\ tested = getWhisperBinaryPathCandidates("win32")
  /\ pc = "execute"

\* C9: when an installer has finished, by returning or by throwing, neither
\* the downloaded archive nor the extraction / build directory exists.
C9_NoTemporaryArtifacts ==
  ipc = "done" => ~archive /\ ~extractDir

\* the maximal runs of non-whitespace characters of s, in order
RECURSIVE Words(_)
Words(s) ==
  LET t == TrimLeft(s)
  IN  IF t = <<>> THEN <<>>
      ELSE LET stops == {i \in 1..Len(t) : t[i] \in WS}
               n == IF stops = {} THEN Len(t) + 1
                    ELSE CHOOSE i \in stops : \A k \in stops : i <= k
           IN  <<SubSeq(t, 1, n - 1)>> \o Words(SubSeq(t, n, Len(t)))

RECURSIVE Flatten(_)
Flatten(ss) == IF ss = <<>> THEN <<>> ELSE Head(ss) \o Flatten(Tail(ss))

WordsOfSeg(g) == Words(g.text)

\* C10: for a structured output holding segments, the returned text is the
\* words of the segment texts, in order, separated by single spaces, with no
\* leading or trailing whitespace, and the returned segments are the segments.
C10_SegmentsJoinedAndCollapsed ==
  (/\ pc = "done" /\ cleanupBlock = "final"
   /\ responses[1].status = 200
   /\ jsonContent.kind = "segs")
    => /\ responses[1].text = JoinSp(Flatten([i \in 1..Len(jsonContent.segs) |-> WordsOfSeg(jsonContent.segs[i])]))
       /\ responses[1].segments = jsonContent.segs


\* C11: a successful transcription whose structured output has a segment with
\* a positive end offset reports a duration greater than 0, the engine's own
\* duration when the output carries one.
C11_DurationPositive ==
  (/\ pc = "done" /\ cleanupBlock = "final"
   /\ responses[1].status = 200
   /\ jsonContent.kind = "segs"
   /\ \E i \in 1..Len(jsonContent.segs) : jsonContent.segs[i].to > 0)
    => /\ responses[1].duration > 0
       /\ jsonContent.duration > 0 => responses[1].duration = jsonContent.duration * 1000

\* C12: in the second handler, a converter that is on disk but whose run ends
\* in a platform execution error gives HTTP 200 with the empty transcript, and
\* neither discovery nor the engine is started; the engine only ever runs
\* after a conversion that succeeded.
C12_UnrunnableConverterDegrades ==
  /\ (/\ variant = 2 /\ pc = "done"
      /\ FFmpegRunnable /\ convertError.error /\ convertError.out = "winerr")
       => /\ Len(responses) = 1
          /\ responses[1].status = 200
          /\ responses[1].isString /\ responses[1].text = <<>>
          /\ responses[1].segments = <<>> /\ responses[1].duration = 0
          /\ started \cap {"selftest", "engine"} = {}
  /\ (variant = 2 /\ "engine" \in started) => converted = "ok"

\* C12 witness: the local converter exists, its run was refused by the platform
C12_Witness ==
  /\ variant = 2 /\ pc = "done"
  /\ ffmpegLocal /\ ffmpegPath = "local"
  /\ convertError = [error |-> TRUE, out |-> "winerr"]
  /\ responses[1].status = 200

\* C13: in the second handler, when the engine left no structured-output file
\* but its captured output holds a brace-delimited JSON block, the response is
\* a success that carries a transcript.
C13_EmbeddedJsonRecovered ==
  (/\ variant = 2 /\ pc = "done" /\ "engine" \in started
   /\ "json" \notin written
   /\ whisperOutput = "json")
    => /\ responses[1].status = 200
       /\ responses[1].isString

\* error texts of the user-input errors and of the tool-resolution failures
UserInputErrors == {"No file uploaded", "Language is required", "Unsupported language"}

ToolResolutionErrors ==
  {"FFmpeg not found and auto-install failed",
   "Whisper binary not found and auto-install failed",
   "Whisper model not found and download failed"}
  \cup {DiscoveryFailureMessage(c) : c \in DiscoveryCases}

\* C14: in the second handler a response other than a success carries a
\* user-input error or a tool-resolution failure, and a success carries a
\* well-formed transcript (its text is a string).
C14_OnlyInputAndToolErrorsFail ==
  (variant = 2 /\ pc = "done")
    => /\ responses[1].status # 200
            => responses[1].error \in UserInputErrors \cup ToolResolutionErrors
       /\ responses[1].status = 200 => responses[1].isString

\* C15: a request without a file or without a language is answered 400 at
\* validation; nothing is resolved, installed, downloaded, converted or run.
C15_MissingInputRejectedAtOnce ==
  (pc # "idle" /\ (~hasFile \/ language = ""))
    => /\ pc \in {"validate", "v1validate", "done"}
       /\ started = {}
       /\ pc = "done" => responses[1].status = 400

\* the part of C18 that does not concern the retained output: whatever the
\* engine's exit status the handler goes on to look for the output file, and
\* a file that exists and holds a usable transcript gives the normal response
EngineExitNotFatal ==
  /\ (variant = 2 /\ engineResult # NoExec) => pc = "findOutput"
  /\ (/\ variant = 2 /\ pc = "done" /\ "engine" \in started
      /\ jsonContent.kind \notin {"invalid"}
      /\ cleanupBlock = "final"
      /\ ~ExtractText(2, jsonContent).threw)
       => responses = <<Payload(2, jsonContent)>>
  /\ (variant = 2 /\ pc \in {"read", "cleanup"}) => "json" \in files

C19_AcceptedIffRealOutput ==
  (pc = "discover" /\ lastTestOut # "none")
    => ((whisperPath = tested[Len(tested)]) <=> (lastTestOut = "real"))

\* C20: when discovery accepts nothing the response is an error whose text is
\* not the text of any other case (stub present, non-functional, missing).
C20_RemediationDistinguishesCases ==
  (pc = "done" /\ cleanupBlock = "discovery")
    => /\ responses[1].status # 200
       /\ \A c \in DiscoveryCases \ {DiscoveryCase} :
            responses[1].error # DiscoveryFailureMessage(c)


\* the tool an installer provisions is reported installed
ToolInstalled ==
  IF itool = "ffmpeg"
  THEN isFFmpegInstalledSync(ffmpegLocal, ffmpegGlobal)
  ELSE isWhisperInstalledSync(platform, whisperFiles, whisperGlobal)

\* C16: installFFmpeg / installWhisper returns without throwing only when the
\* tool it provisions is installed afterwards, on every platform; otherwise
\* it throws.
C16_ProvisionFailureNotSwallowed ==
  (ipc = "done" /\ itool # "none")
    => /\ iresult = "ok" => ToolInstalled
       /\ ~ToolInstalled => iresult = "threw"

\* C17: when the tool is resolvable at the call, the installer downloads
\* nothing, extracts nothing, and returns at once.
C17_NoOpWhenResolvable ==
  wasResolvable
    => /\ ipc \in {"start", "done"}
       /\ ~archive /\ ~extractDir
       /\ ipc = "done" => iresult = "ok"

\* remediation text of each provisioning failure (server.js:333-337, 351-354,
\* 391-395)
ProvisionRemediation(t) ==
  CASE t = "ffmpeg" -> "FFmpeg not found and auto-install failed"
    [] t = "whisper" -> "Whisper binary not found and auto-install failed"
    [] t = "model" -> "Whisper model not found and download failed"

\* C21: when an on-demand installation (ffmpeg, engine binary, model download)
\* throws, the request ends with one error response carrying that tool's
\* remediation text, and neither the conversion, nor a self-test, nor the
\* engine is started for the request.
C21_ProvisionFailureEndsRequest ==
  (variant = 2 /\ installThrew # "none")
    => /\ pc = "done"
       /\ Len(responses) = 1
       /\ responses[1].status = 500
       /\ responses[1].error = ProvisionRemediation(installThrew)
       /\ started \cap {"convert", "selftest", "engine"} = {}
       /\ converted = "no"
       /\ written \cap {"wav", "json"} = {}

\* C21 witness: ffmpeg was there, the engine was installed on demand, and the
\* model download threw
C21_Witness ==
  /\ variant = 2 /\ pc = "done"
  /\ installThrew = "model"
  /\ "installWhisper" \in started
  /\ responses[1].error = "Whisper model not found and download failed"

\* the executable the handler holds was accepted by discovery: a candidate it
\* self-tested, or the global command after the global probe
DiscoveryAccepted ==
  /\ whisperPath # "null"
  /\ "selftest" \in started
  /\ \/ \E i \in 1..Len(tested) : tested[i] = whisperPath
     \/ whisperPath = "whisper"

\* C22: the engine is started only after the conversion of the job succeeded
\* and discovery accepted an executable; the output file is read only after
\* the engine step; and a job that has answered never leaves its terminal
\* state nor answers again.
C22_StageOrder ==
  /\ [](variant = 2 =>
          /\ (pc = "execute" \/ "engine" \in started)
               => (converted = "ok" /\ "convert" \in started /\ DiscoveryAccepted)
          /\ pc \in {"findOutput", "read", "cleanup"}
               => ("engine" \in started /\ engineLang = language)
          /\ pc \in {"read", "cleanup"} => "json" \in written
          /\ pc \in {"convert", "discover"} => "engine" \notin started)
  /\ [][pc = "done" => (pc' = "done" /\ responses' = responses /\ started' = started)]_vars

\* C22 witness: a job went through conversion, discovery (global command
\* accepted), execution and recovery, and answered with success
C22_Witness ==
  /\ variant = 2 /\ pc = "done"
  /\ converted = "ok"
  /\ whisperPath = "whisper"
  /\ "engine" \in started
  /\ cleanupBlock = "final"
  /\ Len(responses) = 1 /\ responses[1].status = 200

\* C23: locating a tool follows a fixed priority: the first local candidate
\* that exists (even when the tool is also on the PATH), otherwise the global
\* command name when the tool is on the PATH, otherwise the canonical local
\* install target, which does not exist.
C23_LocatePriority ==
  LET order == IF platform = "win32"
               THEN <<"whisper-core.exe", "whisper-cli.exe", "main.exe", "whisper.exe">>
               ELSE <<"bin/whisper", "bin/main">>
      anyLocal == \E i \in 1..Len(order) : order[i] \in whisperFiles
      w == getWhisperBinaryPath(platform, whisperFiles, whisperGlobal)
      f == getFFmpegPath(ffmpegLocal, ffmpegGlobal)
  IN  /\ anyLocal => \E i \in 1..Len(order) :
                       /\ w = order[i]
                       /\ order[i] \in whisperFiles
                       /\ \A k \in 1..(i - 1) : order[k] \notin whisperFiles
      /\ (~anyLocal /\ whisperGlobal) => w = "whisper"
      /\ (~anyLocal /\ ~whisperGlobal)
           => (w = order[1] /\ w \notin whisperFiles)
      /\ ffmpegLocal => f = "local"
      /\ (~ffmpegLocal /\ ffmpegGlobal) => f = "ffmpeg"
      /\ (~ffmpegLocal /\ ~ffmpegGlobal) => f = "local"
      /\ pc = "checkFFmpeg" => ffmpegPath = f
      /\ pc = "checkWhisper" /\ "installFFmpeg" \notin started
           => (isWhisperInstalledSync(platform, whisperFiles, whisperGlobal)
                 <=> (anyLocal \/ whisperGlobal))

\* C23 witness: both tools are local and on the PATH, the first engine
\* candidate on disk is the third of the list, and the handler has resolved
\* both
C23_Witness ==
  /\ variant = 2 /\ pc = "checkModel"
  /\ ffmpegLocal /\ ffmpegGlobal /\ ffmpegPath = "local"
  /\ whisperGlobal
  /\ whisperFiles = {"main.exe", "whisper.exe"}
  /\ getWhisperBinaryPath(platform, whisperFiles, whisperGlobal) = "main.exe"
  /\ started = {}

\* C24: locating a tool only inspects: no step that resolves a tool's path
\* (the path helper included) changes a permission bit of a file, and the path
\* the handler holds right after resolving is the one the filesystem and the
\* PATH of that moment give.
C24_LocateIsReadOnly ==
  /\ chmodded = {}
  /\ pc \in {"checkFFmpeg", "v1convert"}
       => ffmpegPath = getFFmpegPath(ffmpegLocal, ffmpegGlobal)

\* sources are contacted in declared order, each at most once, and every
\* source before the last contacted one failed
ContactedInOrder ==
  /\ Len(contacted) <= Len(DownloadSources)
  /\ \A i \in 1..Len(contacted) : contacted[i].src = DownloadSources[i]
  /\ \A i \in 1..(Len(contacted) - 1) :
       contacted[i].outcome \in {"small", "status", "neterror"}

\* C25: download sources are tried strictly in declared order, a later one
\* only after every earlier one failed, none after a success, and the install
\* fails with an error only after every source has been tried.
C25_InstallFailsOnlyAfterAllSources ==
  /\ ContactedInOrder
  /\ (itool = "ffmpeg" /\ platform = "linux" /\ ipc = "done" /\ iresult = "threw")
       => Len(contacted) = Len(DownloadSources)

\* C25, amended: download sources are tried strictly in declared order, a
\* later one only after every earlier one failed, none after a success; the
\* download step fails only after every source has been tried and failed, and
\* extraction starts only on a download that succeeded.  (An install whose
\* download succeeded can still fail at extraction, without another source
\* being contacted.)
C25_SourcesInOrder ==
  /\ ContactedInOrder
  /\ (itool = "ffmpeg" /\ platform = "linux" /\ ipc = "done" /\ iresult = "threw"
        /\ (contacted = <<>> \/ contacted[Len(contacted)].outcome # "ok"))
       => /\ Len(contacted) = Len(DownloadSources)
          /\ \A i \in 1..Len(contacted) : contacted[i].outcome # "ok"
  /\ ipc = "ffLinuxExtract"
       => (contacted # <<>> /\ contacted[Len(contacted)].outcome = "ok")

\* C25 witness: the primary source delivered an undersized file, the mirror a
\* good archive, and the install succeeded
C25_Witness ==
  /\ itool = "ffmpeg" /\ platform = "linux"
  /\ ipc = "done" /\ iresult = "ok"
  /\ Len(contacted) = 2
  /\ contacted[1] = [src |-> "release", outcome |-> "small"]
  /\ contacted[2] = [src |-> "git", outcome |-> "ok"]

\* C26: on every platform and for every tool, an artifact below the size
\* threshold is never handed to extraction and never ends an install with
\* success; it counts as a failed download of its source.
C26_UndersizedArtifactRejected ==
  /\ ipc \in {"ffLinuxExtract", "ffWinExtract", "ffWinFind", "wWinExtract", "wWinFind",
              "wUnixExtract", "wUnixBuild"}
       => contacted[Len(contacted)].outcome # "small"
  /\ (ipc = "done" /\ iresult = "ok" /\ contacted # <<>>)
       => contacted[Len(contacted)].outcome # "small"

\* names of the files anywhere in the archive
TreeNames ==
  {tree[i].name : i \in {k \in 1..Len(tree) : ~tree[k].dir}}
    \cup UNION {{tree[i].items[k].name : k \in 1..Len(tree[i].items)} :
                  i \in {k \in 1..Len(tree) : tree[k].dir}}

\* positions of the name list for which the archive holds a file
PatternsPresent ==
  {i \in 1..Len(BinaryPatterns) :
     \E n \in TreeNames : toLowerCase(n) = BinaryPatterns[i]}

\* C27: findFileRecursively returns null iff no file of the tree has one of
\* the acceptable names (compared case-insensitively), and otherwise returns
\* a file whose name is the earliest of the ordered name list among the names
\* present anywhere in the tree.
C27_EarliestNameWins ==
  binarySource # "pending"
    => /\ (binarySource = "null") <=> (PatternsPresent = {})
       /\ binarySource # "null"
            => /\ binarySource \in TreeNames
               /\ \E i \in PatternsPresent :
                    /\ toLowerCase(binarySource) = BinaryPatterns[i]
                    /\ \A k \in PatternsPresent : i <= k

\* C28: on Windows the unblock command over the bin directory is started
\* after the files were copied and has run to completion before the install
\* resolves and before the archive and the extraction directory are cleaned up.
C28_UnblockCompletesBeforeResolve ==
  /\ unblock # "idle" => "whisper-core.exe" \in whisperFiles
  /\ unblock = "running" => (ipc = "wWinUnblock" /\ archive /\ extractDir)
  /\ (itool = "whisper" /\ platform = "win32" /\ ~wasResolvable
        /\ ipc = "done" /\ iresult = "ok")
       => unblock = "done"

\* C29: the build from source resolves only when the built binary was copied
\* to bin/whisper and made executable; when it throws, bin/whisper is as it
\* was before the call (absent: the installer runs only when bin/ holds no
\* engine).
C29_BuildVerifiedOrUntouched ==
  (itool = "whisper" /\ platform # "win32" /\ ~wasResolvable /\ ipc = "done")
    => /\ iresult = "ok"
            => ("bin/whisper" \in whisperFiles /\ "whisper" \in chmodded
                  /\ contacted # <<>>)
       /\ iresult = "threw" => "bin/whisper" \notin whisperFiles

\* a job is in flight from its upload to its response
InFlight(j) == jstage[j] \notin {"idle", "done"}

\* C30: any two jobs in flight at the same time have different job ids and
\* different stored upload paths, and no job overwrites or deletes a file
\* another job wrote.
C30_JobFilesNeverCollide ==
  /\ \A j, k \in DOMAIN jstage :
       (j # k /\ InFlight(j) /\ InFlight(k))
         => /\ jupload[j] # jupload[k]
            /\ (jid[j] # 0 /\ jid[k] # 0) => jid[j] # jid[k]
  /\ clobbered = {}

\* request j is waiting on an external process or transfer: the PATH probe,
\* the model download, the converter, the engine
WaitingOnExternal(j) == jstage[j] \in {"probing", "downloading", "named", "converted"}

\* C31: while one request waits on an external process, every other request
\* that has not answered yet can take its next step.
C31_ExternalWaitBlocksOnlyItsRequest ==
  \A j, k \in DOMAIN jstage :
    (j # k /\ WaitingOnExternal(j) /\ jstage[k] # "done")
      => ENABLED JobStep(k)

\* C37: no request starts the engine on a model file whose download has not
\* completed.
C37_EngineNeverRunsOnPartialModel ==
  \A j \in DOMAIN engineModel : engineModel[j] # "partial"

\* C32: in the second handler, once the structured-output file has been found,
\* whatever it holds the request ends with a success whose text is a string:
\* the normalized transcript or the empty transcript, never an error.
C32_UnreadableOutputDegradesToEmpty ==
  [][(variant = 2 /\ pc \in {"read", "cleanup"} /\ pc' = "done")
       => /\ responses'[1].status = 200
          /\ responses'[1].isString
          /\ (responses'[1] = emptyTranscription
              \/ responses'[1] = Payload(2, jsonContent))]_vars

\* C33: in the second handler, when the engine left no structured-output file
\* and its captured output holds timestamp-bracket lines but no brace-delimited
\* block, the response is a success with a text and exactly one segment.
C33_RawTextRecovered ==
  (/\ variant = 2 /\ pc = "done" /\ "engine" \in started
   /\ "json" \notin written
   /\ whisperOutput = "text")
    => /\ responses[1].status = 200
       /\ responses[1].isString
       /\ Len(responses[1].segments) = 1

\* C36: after a failed model download no file is at the model path.
C36_FailedDownloadLeavesNoModel ==
  installThrew = "model" => ~isModelAvailableSync(model)

\* C35: in the second handler, when the install check found the engine (no
\* installation is attempted), the path it found is a discovery candidate or
\* the global command; and a request that fails at discovery has self-tested
\* that path.
C35_InstallCheckAgreesWithDiscovery ==
  LET b == getWhisperBinaryPath(platform, whisperFiles, whisperGlobal)
      cands == getWhisperBinaryPathCandidates(platform)
  IN  /\ (variant = 2 /\ pc = "checkModel" /\ "installWhisper" \notin started)
           => (b = "whisper" \/ \E i \in 1..Len(cands) : cands[i] = b)
      /\ (variant = 2 /\ pc = "done" /\ cleanupBlock = "discovery"
          /\ "installWhisper" \notin started)
           => (b = "whisper" \/ \E i \in 1..Len(tested) : tested[i] = b)

\* the releases downloaded so far are the declared ones, in the declared order
C34_AttemptsInOrder ==
  (itool = "whisper" /\ ipc # "off" /\ ipc \in {"vLoop", "vExtract", "vSearched", "vSiblings", "vFinal"})
    => /\ Len(contacted) <= Len(WhisperVersions)
       /\ \A i \in 1..Len(contacted) : contacted[i].src = WhisperVersions[i].version

\* what is copied to whisper-core.exe from v1.8.3 is never its main.exe
C34_StubNeverInstalled ==
  (ipc = "vSiblings" /\ attemptIdx = 2) => toLowerCase(binarySource) # "main.exe"

\* C34: the releases are tried in the declared order; once a binary was found
\* and copied no later release is tried; main.exe of v1.8.3 is never copied to
\* whisper-core.exe; and the function throws exactly when no attempt installed
\* a binary.
C34_VersionedAttempts ==
  /\ C34_AttemptsInOrder
  /\ C34_StubNeverInstalled
  /\ (ipc \in {"vLoop", "vExtract", "vSearched"} /\ attemptIdx > 1)
       => "whisper-core.exe" \notin whisperFiles
  /\ (itool = "whisper" /\ contacted # <<>> /\ ipc = "off")
       => (iresult = "threw" <=> "whisper-core.exe" \notin whisperFiles)

\* a download that rejected has left no file at the destination
C38_RejectLeavesNoFile ==
  dlState = "rejected" => dlFile = "absent"

\* a download resolves only after a 200 response whose body is written and closed
C38_ResolveMeansComplete ==
  dlState = "resolved" => (dlStatus = 200 /\ dlFile = "complete")

\* every download is settled in the end
C38_EventuallySettles ==
  dlState = "call" ~> dlState \in {"resolved", "rejected"}

\* every chain of redirects ends: the call gets to a body, a rejection or a
\* resolution
C38_RedirectsEnd ==
  dlState = "call" ~> dlState \in {"piping", "resolved", "rejected"}

\* C38: downloadFile settles for every behaviour of the server, redirects
\* without a location and redirects back to a URL already visited included;
\* it resolves only after a 200 response whose body is completely written and
\* closed; and when it rejects no file is left at the destination.
C38_DownloadSettlesCleanly ==
  /\ [](dlState = "rejected" => dlFile = "absent")
  /\ [](dlState = "resolved" => (dlStatus = 200 /\ dlFile = "complete"))
  /\ <>(dlState \in {"resolved", "rejected"})

====
